---- MODULE Spec2Model ----
(***************************************************************************)
(* A model of sos/collector/__init__.py (class SoSCollector): the parsing  *)
(* of the --nodes strings, the resolution of the node list (get_nodes and  *)
(* reduce_node_list) and the two pool phases of collect() with the exit    *)
(* policy that follows them.                                               *)
(*                                                                         *)
(* Strings of the program are sequences of one-character strings, so that  *)
(* slicing, stripping, splitting and containment are computed, not assumed.*)
(* Python indices are kept 0-based: Slice(s, a, b) is s[a:b].              *)
(***************************************************************************)
EXTENDS Integers, Sequences, FiniteSets, TLC

VARIABLES
    pc,            \* position of the driver (main thread): the step it is
                   \* at, or the step of prep it has completed last
    raw_nodes,     \* the --nodes strings as given on the command line
    opts_nodes,    \* self.opts.nodes
    hostname,      \* self.hostname
    ip_addrs,      \* self.ip_addrs
    opts_master,   \* self.opts.master
    opts_cluster_type, \* self.opts.cluster_type ("" when not given)
    no_local,      \* self.opts.no_local
    master,        \* self.master: a session record, or NoMaster (False)
    cluster,       \* self.cluster: "None" or the name of the profile in use
    cluster_type,  \* self.cluster_type: Unset while the attribute does not exist
    enum,          \* what the profile's _get_nodes() answers: a list, or Raises
    node_list,     \* self.node_list
    hostlen,       \* self.commons['hostlen']
    threads,       \* self.opts.threads
    sessions,      \* the SosNode objects built so far, by address
    client_list,   \* self.client_list: addresses of the sessions, in append order
    queue,         \* the current pool's unfinished work items, in submission order
    retrieved,     \* self.retrieved
    report_num,    \* self.report_num (0 until line 903 assigns it)
    extra_files,   \* TRUE when the profile's extra command gave files that were fetched
    extra_run,     \* TRUE once the profile's extra command was run
    interrupted,   \* TRUE once KeyboardInterrupt reached the driver
    archive,       \* "none" | "written" | "failed": what create_sos_archive did
    exit_code,     \* the process's exit status, final once pc = "exited"
    clusters,      \* self.clusters: the profiles' short names, in iteration order
    enabled,       \* the profiles whose check_enabled() answers True on the primary
    cluster_options, \* self.opts.cluster_options
    options,       \* the declared options of the loaded profiles, by name
    creds,         \* the credential fields of self.opts
    need_sudo,     \* self.commons['need_sudo']
    prompts,       \* the getpass() calls prep made so far, in order
    node_prompts,  \* the nodes collect() asked a password for, in order
    sos_opts,      \* the fields of self.opts that configure_sos_cmd reads
    sos_cmd,       \* self.sos_cmd
    group,         \* self.opts.group
    save_group,    \* self.opts.save_group
    lib_dir,       \* os.path.isdir(COLLECTOR_LIB_DIR)
    group_files,   \* the host group files of COLLECTOR_LIB_DIR, by name
    cfg,           \* the dict write_host_group built last
    label,         \* self.opts.label
    arc_name,      \* self.arc_name (empty until _get_archive_path assigns it)
    option_string, \* the argument _parse_option_string is called with
    option_list,   \* what _parse_option_string returned
    file_list,     \* host.file_list of the sessions of the client list, by address
    tar,           \* the members added to the tar file so far, in order
    todo,          \* the files create_sos_archive's loops have still to visit
    skipped        \* the files whose tar.add raised (logged at line 987)

parseVars   == <<raw_nodes, opts_nodes>>
hostVars    == <<hostname, ip_addrs, opts_master, opts_cluster_type, no_local>>
clusterVars == <<cluster, cluster_type, enum>>
nodeVars    == <<node_list, hostlen>>
poolVars    == <<threads, sessions, client_list, queue, retrieved,
                 report_num, extra_files, extra_run, interrupted, archive>>
registryVars == <<clusters, enabled>>
optionVars  == <<cluster_options, options>>
credVars    == <<creds, need_sudo, prompts, node_prompts>>
cmdVars     == <<sos_opts, sos_cmd>>
groupVars   == <<group, save_group, lib_dir, group_files, cfg>>
archiveVars == <<label, arc_name>>
jujuVars    == <<option_string, option_list>>
tarVars     == <<file_list, tar, todo, skipped>>
prepVars    == <<registryVars, optionVars, credVars, cmdVars, groupVars,
                 archiveVars, jujuVars, tarVars>>
vars == <<pc, parseVars, hostVars, master, clusterVars, nodeVars, poolVars,
          exit_code, prepVars>>

----------------------------------------------------------------------------
(* Bounds of the model. *)

\* longest --nodes string drawn for parse_node_strings
MaxRawLen == 5
\* longest string of the second --nodes option, when two are given
MaxShortLen == 2
\* most entries get_nodes is given: --nodes tokens plus enumerated names
MaxEntries == 3
\* largest pool size drawn for self.opts.threads
MaxThreads == 2
\* most -c options given on one command line
MaxOptions == 2
\* longest --sos-cmd string drawn
MaxCmdLen == 2
\* longest node list saved to a host group
MaxGroupNodes == 2

----------------------------------------------------------------------------
(* Strings. *)

Range(s) == { s[i] : i \in 1..Len(s) }

\* Python s[a:b] for 0 <= a and 0 <= b <= len(s)
Slice(s, a, b) == SubSeq(s, a + 1, b)

\* Python: ch in s, for a one-character ch
Contains(s, ch) == \E i \in 1..Len(s) : s[i] = ch

\* Python: any(i in s for i in chars)
ContainsAny(s, chars) == \E i \in 1..Len(s) : s[i] \in chars

\* Python: part in s, for strings
HasSubstring(s, part) ==
    \E i \in 0..(Len(s) - Len(part)) : SubSeq(s, i + 1, i + Len(part)) = part

\* Python: x in lst
InList(lst, x) == \E i \in 1..Len(lst) : lst[i] = x

\* no entry of the list is in it twice
NoDuplicates(list) ==
    \A i, j \in 1..Len(list) : list[i] = list[j] => i = j

\* all sequences over S of length at most n
RECURSIVE SeqsUpTo(_, _)
SeqsUpTo(S, n) ==
    IF n = 0 THEN { <<>> }
    ELSE LET shorter == SeqsUpTo(S, n - 1)
         IN  shorter \cup { Append(s, x) : s \in shorter, x \in S }

\* Python: s.lstrip(ch)
RECURSIVE lstrip(_, _)
lstrip(s, ch) ==
    IF s # <<>> /\ Head(s) = ch THEN lstrip(Tail(s), ch) ELSE s

\* Python: s.split(ch)[0]
RECURSIVE SplitFirst(_, _)
SplitFirst(s, ch) ==
    IF s = <<>> \/ Head(s) = ch THEN <<>>
    ELSE <<Head(s)>> \o SplitFirst(Tail(s), ch)

\* Python: s.split(ch), for a one-character ch
RECURSIVE Split(_, _)
Split(s, ch) ==
    IF ~Contains(s, ch) THEN << s >>
    ELSE LET first == SplitFirst(s, ch)
         IN  << first >> \o Split(SubSeq(s, Len(first) + 2, Len(s)), ch)

\* Python: s.split(), the pieces between runs of blanks
SplitBlanks(s) == SelectSeq(Split(s, " "), LAMBDA piece : piece # <<>>)

\* Python: c.lower(), for the capital letters that are drawn
LowerChar(c) ==
    CASE c = "T" -> "t" [] c = "F" -> "f" [] c = "O" -> "o" [] c = "N" -> "n"
      [] OTHER -> c

\* Python: s.lower()
lower(s) == [i \in 1..Len(s) |-> LowerChar(s[i])]

\* Python: lst.remove(x) for an x that is in lst: the first occurrence goes
RECURSIVE RemoveFirst(_, _)
RemoveFirst(lst, x) ==
    IF lst = <<>> THEN <<>>
    ELSE IF Head(lst) = x THEN Tail(lst)
    ELSE <<Head(lst)>> \o RemoveFirst(Tail(lst), x)

\* Python: for n in lst: if n in S: lst.remove(n)
\* The list iterator keeps an index into the list that is being shortened,
\* so the element that follows a removed one is never visited.
RECURSIVE IterRemove(_, _, _)
IterRemove(lst, i, S) ==
    IF i >= Len(lst) THEN lst
    ELSE IF lst[i + 1] \in S
         THEN IterRemove(RemoveFirst(lst, lst[i + 1]), i + 1, S)
         ELSE IterRemove(lst, i + 1, S)

\* every list that holds each element of the set S exactly once: list(set(...))
\* fixes no order
RECURSIVE ListsOfSet(_)
ListsOfSet(S) ==
    IF S = {} THEN { <<>> }
    ELSE UNION { { <<x>> \o l : l \in ListsOfSet(S \ {x}) } : x \in S }

----------------------------------------------------------------------------
(* parse_node_strings *)

\* idxs: the 0-based positions of ',' in node, then len(node)
RECURSIVE CommaIdxs(_, _)
CommaIdxs(node, i) ==
    IF i > Len(node) THEN << Len(node) >>
    ELSE (IF node[i] = "," THEN << i - 1 >> ELSE <<>>) \o CommaIdxs(node, i + 1)

\* re.compile(re.escape(reg)): re.escape makes every character a literal, so
\* the compile succeeds on every string and re.error is never raised
EscapedCompiles(reg) == TRUE

\* the test that decides whether the scan may split at this comma
SplitsRegexClass(reg) == Contains(reg, "[") /\ ~Contains(reg, "]")

\* the loop 'for idx in idxs' from its k-th item on
RECURSIVE ScanIdxs(_, _, _, _, _, _)
ScanIdxs(node, idxs, k, start, pos, nodes) ==
    IF k > Len(idxs) THEN [nodes |-> nodes, pos |-> pos]
    ELSE LET idx == idxs[k]
             reg == Slice(node, start, idx)
         IN  IF ~EscapedCompiles(reg) \/ SplitsRegexClass(reg)
             THEN ScanIdxs(node, idxs, k + 1, start, idx, nodes)
             ELSE ScanIdxs(node, idxs, k + 1, idx, idx,
                           Append(nodes, lstrip(reg, ",")))

\* the body of 'for node in self.opts.nodes'
ParseNodeString(node, nodes) ==
    LET r == ScanIdxs(node, CommaIdxs(node, 1), 1, 0, 0, nodes)
    IN  IF r.pos # Len(node)
        THEN Append(r.nodes, Slice(node, r.pos + 1, Len(node)))
        ELSE r.nodes

RECURSIVE ParseAll(_, _, _)
ParseAll(raws, k, nodes) ==
    IF k > Len(raws) THEN nodes
    ELSE ParseAll(raws, k + 1, ParseNodeString(raws[k], nodes))

parse_node_strings(raws) ==
    IF raws = <<>> THEN raws ELSE ParseAll(raws, 1, <<>>)

----------------------------------------------------------------------------
(* Names the node lists are drawn from. *)

Localhost  == <<"l", "o", "c", "a", "l", "h", "o", "s", "t">>
HostFull   == <<"d", ".", "x">>     \* socket.gethostname() of the driver
HostShort  == <<"d">>               \* its first label
LocalAddr  == <<"1">>               \* an address of the driver
MasterAddr == <<"9">>               \* the address given with --master
MasterHost == <<"m">>               \* the hostname the master session reports
NodeA      == <<"a">>
NodeB      == <<"b">>
NodeC      == <<"c">>
Empty      == <<>>
PatA       == <<"a", "*">>
PatAny1    == <<"?">>               \* any name of one character
PatClass   == <<"[", "a", "m", "]">>  \* 'a' or 'm'

\* a.example, b.example, c.example and the pattern b.*
AExample   == <<"a", ".", "e", "x", "a", "m", "p", "l", "e">>
BExample   == <<"b", ".", "e", "x", "a", "m", "p", "l", "e">>
CExample   == <<"c", ".", "e", "x", "a", "m", "p", "l", "e">>
ExampleEnum == << AExample, BExample, CExample >>
PatB       == <<"b", ".", "*">>

\* what a --nodes token may be after parse_node_strings
TokenNames == { HostFull, HostShort, LocalAddr, MasterAddr, MasterHost,
                NodeA, Empty, PatA }
\* what a profile may enumerate
EnumNames  == { HostFull, HostShort, LocalAddr, MasterAddr, MasterHost,
                NodeA, Empty }

\* Python's False, True and None where a field may also hold a string (values
\* no string of the program equals)
PyFalse == << "False" >>
PyNone  == << "None" >>
PyTrue  == << "True" >>

\* self.master = False, as __init__ leaves it (a record no session equals)
NoMaster   == [unset |-> TRUE]
Unset      == "unset"    \* an attribute that was never assigned
\* a call that ends in an exception (a value no list of names equals)
Raises     == << << "raises" >> >>

\* a SosNode as the driver sees it after the constructor returned
Session(addr, host, conn) ==
    [address |-> addr, hostname |-> host, connected |-> conn,
     local |-> (addr = Localhost)]

----------------------------------------------------------------------------
(* compare_node_to_regex: fnmatch.translate, then re.match *)

\* fnmatch.translate: the index (1-based, in pat) of the ']' that closes the
\* class opened by pat[1] = '[', or 0 when the '[' is a literal
RECURSIVE FirstFrom(_, _, _)
FirstFrom(pat, j, ch) ==
    IF j > Len(pat) THEN 0
    ELSE IF pat[j] = ch THEN j ELSE FirstFrom(pat, j + 1, ch)

ClassEnd(pat) ==
    LET j1 == IF Len(pat) >= 2 /\ pat[2] = "!" THEN 3 ELSE 2
        j2 == IF Len(pat) >= j1 /\ pat[j1] = "]" THEN j1 + 1 ELSE j1
    IN  FirstFrom(pat, j2, "]")

\* re.match(fnmatch.translate(pat), s): the translation ends in \Z, so the
\* whole of s has to match.  Character ranges (x-y) need a '-', which no
\* name of the model holds.
RECURSIVE FnMatch(_, _)
FnMatch(pat, s) ==
    IF pat = <<>> THEN s = <<>>
    ELSE LET c == Head(pat) IN
         CASE c = "*" ->
                \E k \in 0..Len(s) : FnMatch(Tail(pat), SubSeq(s, k + 1, Len(s)))
           [] c = "?" ->
                s # <<>> /\ FnMatch(Tail(pat), Tail(s))
           [] c = "[" /\ ClassEnd(pat) # 0 ->
                LET e     == ClassEnd(pat)
                    neg   == pat[2] = "!"
                    stuff == SubSeq(pat, IF neg THEN 3 ELSE 2, e - 1)
                IN  /\ s # <<>>
                    /\ (Head(s) \in Range(stuff)) # neg
                    /\ FnMatch(SubSeq(pat, e + 1, Len(pat)), Tail(s))
           [] OTHER ->
                s # <<>> /\ Head(s) = c /\ FnMatch(Tail(pat), Tail(s))

compare_node_to_regex(node, regexes) ==
    \E i \in 1..Len(regexes) : FnMatch(regexes[i], node)

----------------------------------------------------------------------------
(* determine_cluster *)

\* the classes of the profiles: rhv refines ovirt and rhhi_virt refines rhv;
\* every other profile derives from the Cluster base directly
ParentOf(p) ==
    CASE p = "rhv"       -> "ovirt"
      [] p = "rhhi_virt" -> "rhv"
      [] OTHER           -> "Cluster"

\* issubclass(d.__class__, b.__class__)
RECURSIVE issubclass(_, _)
issubclass(d, b) ==
    d = b \/ (d # "Cluster" /\ issubclass(ParentOf(d), b))

\* the loop 'for remaining in checks' from its j-th item on: the first
\* remaining profile that derives from base and matches, or base
RECURSIVE LayeredProfile(_, _, _, _)
LayeredProfile(checks, j, base, en) ==
    IF j > Len(checks) THEN base
    ELSE IF issubclass(checks[j], base) /\ checks[j] \in en THEN checks[j]
    ELSE LayeredProfile(checks, j + 1, base, en)

\* the loop 'for cluster in self.clusters.values()' from its k-th item on;
\* checks holds the profiles not visited yet.  "None" when no profile matches.
RECURSIVE DetermineFrom(_, _, _)
DetermineFrom(order, k, en) ==
    IF k > Len(order) THEN "None"
    ELSE IF order[k] \in en
         THEN LayeredProfile(SubSeq(order, k + 1, Len(order)), 1, order[k], en)
         ELSE DetermineFrom(order, k + 1, en)

determine_cluster(order, en) == DetermineFrom(order, 1, en)

----------------------------------------------------------------------------
(* get_nodes and reduce_node_list *)

\* the characters get_nodes strips on after a failed enumeration (line 837)
FallbackMeta == { "*", "\\", "?", "(", ")", "/" }
\* the characters that make a --nodes token a pattern (line 843)
RegexMeta    == { "*", "\\", "?", "(", ")", "/", "[", "]" }

\* get_nodes_from_cluster: reading self.cluster_type raises AttributeError
\* while nothing has assigned it; a falsy cluster_type returns None (Raises
\* here too: None is not iterable and hostname in None raises)
get_nodes_from_cluster(ctype, answer) ==
    IF ctype = Unset THEN Raises ELSE answer

\* a mutant of FilterNodes: every enumerated name is appended
FilterNodes_KeepAll(nodes, k, regexes) == SubSeq(nodes, k, Len(nodes))

\* for node in nodes: if self.compare_node_to_regex(node): append
RECURSIVE FilterNodes(_, _, _)
FilterNodes(nodes, k, regexes) ==
    IF k > Len(nodes) THEN <<>>
    ELSE (IF compare_node_to_regex(nodes[k], regexes) THEN << nodes[k] >> ELSE <<>>)
         \o FilterNodes(nodes, k + 1, regexes)

\* the try block of get_nodes: the list, and whether it is self.opts.nodes itself
NodesFromSources(ctype, answer, tokens, old_list) ==
    LET nodes == get_nodes_from_cluster(ctype, answer)
    IN  IF nodes = Raises
        THEN [list |-> IterRemove(tokens, 0,
                          { n \in Range(tokens) : ContainsAny(n, FallbackMeta) }),
              aliased |-> TRUE]
        ELSE IF tokens # <<>>
        THEN [list |-> old_list \o FilterNodes(nodes, 1, tokens), aliased |-> FALSE]
        ELSE [list |-> nodes, aliased |-> FALSE]

\* a mutant of ForceAdd: the tokens that are patterns are appended too
RECURSIVE ForceAdd_PatternsToo(_, _, _)
ForceAdd_PatternsToo(list, tokens, k) ==
    IF k > Len(tokens) THEN list
    ELSE IF InList(list, tokens[k])
         THEN ForceAdd_PatternsToo(list, tokens, k + 1)
         ELSE ForceAdd_PatternsToo(Append(list, tokens[k]), tokens, k + 1)

\* force add any non-regex node strings from the nodes option.  When the list
\* is self.opts.nodes itself, every token is already in it.
RECURSIVE ForceAdd(_, _, _)
ForceAdd(list, tokens, k) ==
    IF k > Len(tokens) THEN list
    ELSE IF ContainsAny(tokens[k], RegexMeta) \/ InList(list, tokens[k])
         THEN ForceAdd(list, tokens, k + 1)
         ELSE ForceAdd(Append(list, tokens[k]), tokens, k + 1)

\* lines 849-855, taken only while self.master is False
TrustLocalHostname(list, host) ==
    Append(IterRemove(list, 0,
               { n \in Range(list) : SplitFirst(n, ".") = SplitFirst(host, ".") }),
           host)

\* for i in self.ip_addrs: if i in self.node_list: self.node_list.remove(i)
RECURSIVE RemoveAddrs(_, _, _)
RemoveAddrs(list, addrs, k) ==
    IF k > Len(addrs) THEN list
    ELSE RemoveAddrs(IF InList(list, addrs[k]) THEN RemoveFirst(list, addrs[k])
                     ELSE list,
                     addrs, k + 1)

\* reduce_node_list up to line 799: the removals, done in place
ReduceInPlace(list, host, addrs, nolocal, mstr, omaster) ==
    LET l1 == IF InList(list, host) /\ nolocal THEN RemoveFirst(list, host) ELSE list
        l2 == RemoveAddrs(l1, addrs, 1)
    IN  IF mstr # NoMaster
        THEN IterRemove(l2, 0, { mstr.hostname, omaster })
        ELSE l2

\* line 800 without the set(): a mutant of DedupNonEmpty
DedupNonEmpty_NoSet(list) == { SelectSeq(list, LAMBDA n : n # <<>>) }

\* line 800: list(set(n for n in self.node_list if n)), in any order
DedupNonEmpty(list) == ListsOfSet({ n \in Range(list) : n # <<>> })

\* line 858-860: len(max(self.node_list, key=len)), or len(self.opts.master)
\* when max() raises on the empty list
HostLen(list, omaster) ==
    IF list = <<>> THEN Len(omaster)
    ELSE CHOOSE m \in { Len(list[i]) : i \in 1..Len(list) } :
            \A i \in 1..Len(list) : Len(list[i]) <= m

\* reduce_node_list: every list it may leave in self.node_list
reduce_node_list(list, host, addrs, nolocal, mstr, omaster) ==
    DedupNonEmpty(ReduceInPlace(list, host, addrs, nolocal, mstr, omaster))

\* get_nodes from line 824 on: what it leaves in self.opts.nodes (which the
\* except branch makes the same list object as self.node_list, so that the
\* removals done in place reach it) and the lists self.node_list may end as
get_nodes(ctype, answer, tokens, old_list, host, addrs, nolocal, mstr, omaster) ==
    LET src     == NodesFromSources(ctype, answer, tokens, old_list)
        optsnow == IF src.aliased THEN src.list ELSE tokens
        forced  == IF optsnow # <<>> THEN ForceAdd(src.list, optsnow, 1) ELSE src.list
        trusted == IF mstr = NoMaster THEN TrustLocalHostname(forced, host) ELSE forced
        inplace == ReduceInPlace(trusted, host, addrs, nolocal, mstr, omaster)
    IN  [opts_nodes |-> IF src.aliased THEN inplace ELSE tokens,
         finals     |-> reduce_node_list(trusted, host, addrs, nolocal, mstr, omaster)]

----------------------------------------------------------------------------
(* parse_cluster_options, verify_cluster_options and _validate_option *)

\* ClusterOption(name, value, opt_type, cluster)
ClusterOption(name, value, opt_type, clust) ==
    [name |-> name, value |-> value, opt_type |-> opt_type, cluster |-> clust]

\* option.split('.')[1] raises IndexError, outside the try block, when the
\* option holds no '.'
OptionRaises(option) == Len(Split(option, ".")) < 2

\* the body of 'for option in self.opts.cluster_options', for an option that
\* does not raise
ParseClusterOption(option) ==
    LET dotted == Split(option, ".")
        eq     == Split(option, "=")
        value  == IF Len(eq) >= 2 /\ SplitBlanks(eq[2]) # <<>>
                  THEN SplitBlanks(eq[2])[1]
                  ELSE << "T", "r", "u", "e" >>
    IN  ClusterOption(Split(dotted[2], "=")[1], value, "str", dotted[1])

\* parse_cluster_options: the list it leaves in self.opts.cluster_options
\* when no option raises
parse_cluster_options(raws) ==
    [i \in 1..Len(raws) |-> ParseClusterOption(raws[i])]

\* the value of match when the body of 'for opt in ...' has run for opt
OptionMatches(opt, declared) ==
    \E k \in 1..Len(declared) : declared[k].name = opt.name

\* verify_cluster_options: TRUE when it calls self._exit.  The test of match
\* comes after the loop over the options, with the value the last one left.
verify_cluster_options(opts, declared) ==
    opts # <<>> /\ ~OptionMatches(opts[Len(opts)], declared)

\* a mutant of _validate_option: the value is not lowered before the test
_validate_option_NoLower(default, cli) ==
    IF default.opt_type # "bool"
    THEN IF default.opt_type # cli.opt_type
         THEN [exits |-> TRUE, value |-> cli.value]
         ELSE [exits |-> FALSE, value |-> cli.value]
    ELSE IF cli.value \notin { << "t", "r", "u", "e" >>, << "o", "n" >>, << "f", "a", "l", "s", "e" >>, << "o", "f", "f" >> }
         THEN [exits |-> TRUE, value |-> cli.value]
         ELSE [exits |-> FALSE,
               value |-> IF cli.value \in { << "t", "r", "u", "e" >>, << "o", "n" >> } THEN PyTrue ELSE PyFalse]

\* _validate_option: whether it calls self._exit, and what it returns
_validate_option(default, cli) ==
    IF default.opt_type # "bool"
    THEN IF default.opt_type # cli.opt_type
         THEN [exits |-> TRUE, value |-> cli.value]
         ELSE [exits |-> FALSE, value |-> cli.value]
    ELSE LET val == lower(cli.value) IN
         IF val \notin { << "t", "r", "u", "e" >>, << "o", "n" >>, << "f", "a", "l", "s", "e" >>, << "o", "f", "f" >> }
         THEN [exits |-> TRUE, value |-> cli.value]
         ELSE [exits |-> FALSE,
               value |-> IF val \in { << "t", "r", "u", "e" >>, << "o", "n" >> } THEN PyTrue ELSE PyFalse]

\* the coercion step applied for the k-th user option and the ones after it:
\* each is validated against the declared option of its profile and name,
\* whose value it becomes
RECURSIVE ApplyOptions(_, _, _)
ApplyOptions(opts, k, declared) ==
    IF k > Len(opts) THEN [exits |-> FALSE, options |-> declared]
    ELSE LET cli  == opts[k]
             hits == { j \in 1..Len(declared) :
                          /\ declared[j].name = cli.name
                          /\ declared[j].cluster = cli.cluster }
         IN  IF hits = {} THEN ApplyOptions(opts, k + 1, declared)
             ELSE LET j == CHOOSE j \in hits : TRUE
                      r == _validate_option(declared[j], cli)
                  IN  IF r.exits THEN [exits |-> TRUE, options |-> declared]
                      ELSE ApplyOptions(opts, k + 1,
                              [declared EXCEPT ![j].value = r.value])

----------------------------------------------------------------------------
(* prep, lines 585-620: the passwords *)

\* Python: bool(x), for a string, False, True or None
Truthy(x) == x \notin { PyFalse, PyNone, <<>> }

\* the credential state prep works on
CredState(c, ns, pr) == [creds |-> c, need_sudo |-> ns, prompts |-> pr]

\* lines 592-596: the ssh password
SshPassword(st, entered) ==
    IF Truthy(st.creds.password) \/ st.creds.password_per_node
    THEN CredState([st.creds EXCEPT !.password = entered], st.need_sudo,
                   Append(st.prompts, "ssh"))
    ELSE st

\* lines 598-608: the sudo password
SudoPassword(st, entered) ==
    IF st.need_sudo /\ ~st.creds.insecure_sudo
    THEN IF ~Truthy(st.creds.password)
         THEN CredState([st.creds EXCEPT !.sudo_pw = entered], st.need_sudo,
                        Append(st.prompts, "sudo"))
         ELSE CredState([st.creds EXCEPT !.sudo_pw = st.creds.password],
                        st.need_sudo, st.prompts)
    ELSE st

\* a mutant of BecomeRoot: the root password is asked for whoever the user is
BecomeRoot_AlwaysAsks(st, entered) ==
    IF st.creds.become_root
    THEN CredState([st.creds EXCEPT !.root_password = entered], FALSE,
                   Append(st.prompts, "root"))
    ELSE st

\* lines 610-620: the root password
BecomeRoot(st, entered) ==
    IF st.creds.become_root
    THEN IF st.creds.ssh_user # "root"
         THEN CredState([st.creds EXCEPT !.root_password = entered], FALSE,
                        Append(st.prompts, "root"))
         ELSE CredState([st.creds EXCEPT !.become_root = FALSE], st.need_sudo,
                        st.prompts)
    ELSE st

\* how a node session raises its privilege: su fed the root password when
\* become_root is set, else sudo when need_sudo is set
Escalation(c, ns) ==
    IF c.become_root THEN "su" ELSE IF ns THEN "sudo" ELSE "none"

----------------------------------------------------------------------------
(* configure_sos_cmd *)

\* 'sosreport --batch'
SosBase == << "s", "o", "s", "r", "e", "p", "o", "r", "t", " ", "-", "-", "b", "a", "t", "c", "h" >>

\* shlex.quote: the characters outside [A-Za-z0-9_@%+=:,./-], among the ones
\* that are drawn
UnsafeChars == { " ", "'", "&", "|", ">", "<", ";" }

\* s.replace("'", "'\"'\"'")
RECURSIVE EscapeQuotes(_)
EscapeQuotes(s) ==
    IF s = <<>> THEN <<>>
    ELSE (IF Head(s) = "'" THEN << "'", "\"", "'", "\"", "'" >> ELSE << Head(s) >>)
         \o EscapeQuotes(Tail(s))

\* shlex.quote(s), for a string s
quote(s) ==
    IF s = <<>> THEN << "'", "'" >>
    ELSE IF ~ContainsAny(s, UnsafeChars) THEN s
    ELSE << "'" >> \o EscapeQuotes(s) \o << "'" >>

\* line 699
ShellFilter == { "&", "|", ">", "<", ";" }

\* lines 710-727.  log_size is an int (the parser's type=int), and
\* shlex.quote raises TypeError on it: the command stays as built so far.
NormalCmd(o) ==
    LET c1 == SosBase \o (IF o.case_id # <<>>
                          THEN << " ", "-", "-", "c", "a", "s", "e", "-", "i", "d", "=" >> \o quote(o.case_id) ELSE <<>>)
        c2 == c1 \o (IF o.alloptions THEN << " ", "-", "-", "a", "l", "l", "o", "p", "t", "i", "o", "n", "s" >> ELSE <<>>)
        c3 == c2 \o (IF o.all_logs THEN << " ", "-", "-", "a", "l", "l", "-", "l", "o", "g", "s" >> ELSE <<>>)
        c4 == c3 \o (IF o.verify THEN << " ", "-", "-", "v", "e", "r", "i", "f", "y" >> ELSE <<>>)
        c6 == c4 \o (IF o.sysroot # <<>>
                     THEN << " ", "-", "s", " " >> \o quote(o.sysroot) ELSE <<>>)
        c7 == c6 \o (IF o.chroot # <<>>
                     THEN << " ", "-", "c", " " >> \o quote(o.chroot) ELSE <<>>)
        c8 == c7 \o (IF o.compression # <<>>
                     THEN << " ", "-", "z", " " >> \o quote(o.compression) ELSE <<>>)
    IN  IF o.log_size # 0
        THEN [cmd |-> c4, raised |-> TRUE]
        ELSE [cmd |-> c8, raised |-> FALSE]

\* a mutant of configure_sos_cmd: the override is not searched for the
\* characters of the filter
configure_sos_cmd_NoFilter(o) ==
    IF o.sos_opt_line # <<>>
    THEN [cmd |-> SosBase \o << " " >> \o quote(o.sos_opt_line),
          raised |-> FALSE, sos_opt_line |-> o.sos_opt_line]
    ELSE [cmd |-> NormalCmd(o).cmd, raised |-> NormalCmd(o).raised,
          sos_opt_line |-> o.sos_opt_line]

\* configure_sos_cmd: self.sos_cmd, whether an exception ended it, and
\* self.opts.sos_opt_line as it leaves it
configure_sos_cmd(o) ==
    IF o.sos_opt_line # <<>> /\ ~ContainsAny(o.sos_opt_line, ShellFilter)
    THEN [cmd |-> SosBase \o << " " >> \o quote(o.sos_opt_line),
          raised |-> FALSE, sos_opt_line |-> o.sos_opt_line]
    ELSE [cmd |-> NormalCmd(o).cmd, raised |-> NormalCmd(o).raised,
          sos_opt_line |-> IF o.sos_opt_line # <<>> THEN PyNone
                           ELSE o.sos_opt_line]

----------------------------------------------------------------------------
(* write_host_group and _load_group_config *)

\* the short names of the profiles as Python strings
ProfileTexts ==
    [n \in { "", "prof", "ovirt" } |->
        CASE n = "prof"  -> << "p", "r", "o", "f" >>
          [] n = "ovirt" -> << "o", "v", "i", "r", "t" >>
          [] OTHER       -> <<>>]

\* the short name a string spells
ProfileNamed(text) == CHOOSE n \in DOMAIN ProfileTexts : ProfileTexts[n] = text

\* json.dump of a str: '"' and '\' are written behind a backslash
RECURSIVE JsonEscape(_)
JsonEscape(str) ==
    IF str = <<>> THEN <<>>
    ELSE (IF Head(str) \in { "\"", "\\" } THEN << "\\", Head(str) >>
          ELSE << Head(str) >>) \o JsonEscape(Tail(str))

JsonString(str) == << "\"" >> \o JsonEscape(str) \o << "\"" >>

\* json.dump of a list of str from its k-th item on: the items, ', ' between
RECURSIVE JsonItems(_, _)
JsonItems(list, k) ==
    IF k > Len(list) THEN <<>>
    ELSE (IF k > 1 THEN << ",", " " >> ELSE <<>>)
         \o JsonString(list[k]) \o JsonItems(list, k + 1)

JsonArray(list) == << "[" >> \o JsonItems(list, 1) \o << "]" >>

\* json.load: the index of the '"' that ends the string whose body starts at k
RECURSIVE StringEnd(_, _)
StringEnd(text, k) ==
    IF text[k] = "\\" THEN StringEnd(text, k + 2)
    ELSE IF text[k] = "\"" THEN k
    ELSE StringEnd(text, k + 1)

\* json.load: the str a string body stands for
RECURSIVE JsonUnescape(_)
JsonUnescape(body) ==
    IF body = <<>> THEN <<>>
    ELSE IF Head(body) = "\\"
         THEN << body[2] >> \o JsonUnescape(SubSeq(body, 3, Len(body)))
         ELSE << Head(body) >> \o JsonUnescape(Tail(body))

\* json.load of the text of a str
ParseJsonString(text) == JsonUnescape(SubSeq(text, 2, StringEnd(text, 2) - 1))

\* json.load of the text of a list of str, from the item that starts at k
RECURSIVE ParseJsonItems(_, _)
ParseJsonItems(text, k) ==
    IF text[k] = "]" THEN <<>>
    ELSE LET e == StringEnd(text, k + 1)
         IN  << JsonUnescape(SubSeq(text, k + 1, e - 1)) >>
             \o ParseJsonItems(text, IF text[e + 1] = "," THEN e + 3 ELSE e + 1)

ParseJsonArray(text) == ParseJsonItems(text, 2)

\* lines 547-552: the dict; reading self.cluster_type raises AttributeError
\* while nothing has assigned it
HostGroupCfg(name, omaster, ctype, nodes) ==
    [name |-> name, master |-> omaster, cluster_type |-> ctype, nodes |-> nodes]

\* json.dump(cfg, hf): the text of each value of the document
JsonDump(c) ==
    [name |-> JsonString(c.name), master |-> JsonString(c.master),
     cluster_type |-> JsonString(ProfileTexts[c.cluster_type]),
     nodes |-> JsonArray(c.nodes)]

\* json.load(hf)
JsonLoad(doc) ==
    [name |-> ParseJsonString(doc.name), master |-> ParseJsonString(doc.master),
     cluster_type |-> ParseJsonString(doc.cluster_type),
     nodes |-> ParseJsonArray(doc.nodes)]

\* a mutant of _load_group_config: only the master is taken from the group
_load_group_config_MasterOnly(doc, omaster, octype, onodes) ==
    LET g == JsonLoad(doc)
    IN  [master |-> IF g.master # <<>> THEN g.master ELSE omaster,
         cluster_type |-> octype, nodes |-> onodes]

\* a mutant of _load_group_config: the group's nodes replace the nodes given
_load_group_config_Replaces(doc, omaster, octype, onodes) ==
    LET g == JsonLoad(doc)
    IN  [master |-> IF g.master # <<>> THEN g.master ELSE omaster,
         cluster_type |-> IF g.cluster_type # <<>>
                          THEN ProfileNamed(g.cluster_type) ELSE octype,
         nodes |-> IF g.nodes # <<>> THEN g.nodes ELSE onodes]

\* _load_group_config, lines 528-537: the options it leaves
_load_group_config(doc, omaster, octype, onodes) ==
    LET g == JsonLoad(doc)
    IN  [master |-> IF g.master # <<>> THEN g.master ELSE omaster,
         cluster_type |-> IF g.cluster_type # <<>>
                          THEN ProfileNamed(g.cluster_type) ELSE octype,
         nodes |-> IF g.nodes # <<>> THEN onodes \o g.nodes ELSE onodes]

----------------------------------------------------------------------------
(* _get_archive_name *)

\* 'sos-collector'
ArchivePrefix == << "s", "o", "s", "-", "c", "o", "l", "l", "e", "c", "t", "o", "r" >>

\* string.ascii_lowercase, which random.choice draws from (line 489)
Lowercase ==
    { "a", "b", "c", "d", "e", "f", "g", "h", "i", "j", "k", "l", "m",
      "n", "o", "p", "q", "r", "s", "t", "u", "v", "w", "x", "y", "z" }

\* _get_archive_name, lines 477-490: dt is strftime('%Y-%m-%d') of now and
\* rand the five letters drawn
_get_archive_name(lbl, case, dt, rand) ==
    ArchivePrefix
        \o (IF lbl # <<>> THEN << "-" >> \o lbl ELSE <<>>)
        \o (IF case # <<>> THEN << "-" >> \o case ELSE <<>>)
        \o << "-" >> \o dt \o << "-" >> \o rand

----------------------------------------------------------------------------
(* _parse_option_string of the juju profile (sos.collector.clusters.juju) *)

\* a mutant of _parse_option_string: the blanks in front are kept
_parse_option_string_NoStrip(strings) ==
    IF ~Truthy(strings) THEN <<>> ELSE Split(strings, ",")

\* _parse_option_string(strings=None): no argument and the empty string give
\* the empty list; else the blanks in front are stripped and the rest is
\* split at its commas
_parse_option_string(strings) ==
    IF ~Truthy(strings) THEN <<>> ELSE Split(lstrip(strings, " "), ",")

----------------------------------------------------------------------------
(* Values the variables have where a specification does not use them. *)

NoParse   == raw_nodes = <<>>
NoCluster == cluster = "None" /\ cluster_type = Unset /\ enum = <<>>
NoPool    == /\ threads = 1 /\ sessions = << >> /\ client_list = <<>>
             /\ queue = <<>> /\ retrieved = 0 /\ report_num = 0
             /\ extra_files = FALSE /\ extra_run = FALSE
             /\ interrupted = FALSE /\ archive = "none"

\* arg_defaults (lines 43-77) and the parser's defaults, for the fields the
\* model reads; sudo_pw and root_password do not exist until prep assigns
\* them, and password_given is whether --password is in sys.argv
DefaultCreds ==
    [password_given |-> FALSE,
     password |-> PyFalse, password_per_node |-> FALSE, ssh_user |-> "root",
     insecure_sudo |-> FALSE, become_root |-> FALSE,
     sudo_pw |-> PyNone, root_password |-> PyNone]

DefaultSosOpts ==
    [sos_opt_line |-> <<>>, case_id |-> <<>>, alloptions |-> FALSE,
     all_logs |-> FALSE, verify |-> FALSE, log_size |-> 0,
     sysroot |-> <<>>, chroot |-> <<>>, compression |-> <<>>]

\* the dict of write_host_group while none was built
NoCfg == [name |-> <<>>, master |-> <<>>, cluster_type |-> "unset", nodes |-> <<>>]

NoRegistry == clusters = <<>> /\ enabled = {}
NoOptions  == cluster_options = <<>> /\ options = << >>
NoCreds    == /\ creds = DefaultCreds /\ need_sudo = FALSE
              /\ prompts = <<>> /\ node_prompts = <<>>
NoCmd      == sos_opts = DefaultSosOpts /\ sos_cmd = <<>>
NoGroup    == /\ group = <<>> /\ save_group = <<>> /\ lib_dir = TRUE
              /\ group_files = << >> /\ cfg = NoCfg
NoArchive  == label = <<>> /\ arc_name = <<>>
NoJuju     == option_string = PyNone /\ option_list = <<>>
NoTar      == /\ file_list = << >> /\ tar = <<>> /\ todo = <<>>
              /\ skipped = <<>>

\* the name the primary is listed under: --master, or the driver's hostname;
\* _parse_options (line 344) starts commons['hostlen'] at its length
PrimaryName == IF opts_master # Empty THEN opts_master ELSE hostname

\* the driver's own names, and the two ways prep sets the primary up
\* (lines 629-641): --master given, which forces no_local, or localhost
HostConfig ==
    /\ hostname = HostFull
    /\ ip_addrs = << LocalAddr >>
    /\ \/ /\ opts_master = MasterAddr
          /\ \E conn \in BOOLEAN : master = Session(MasterAddr, MasterHost, conn)
          /\ no_local = TRUE
       \/ /\ opts_master = Empty
          /\ \E conn \in BOOLEAN : master = Session(Localhost, HostFull, conn)
          /\ no_local \in BOOLEAN

\* a SosNode's state: sosreport() calls so far, what the last one did,
\* self.retrieved, and close_ssh_session() calls so far
NewSession(conn, loc) ==
    [connected |-> conn, local |-> loc, runs |-> 0, outcome |-> "none",
     retrieved |-> FALSE, closed |-> 0]

\* for client in self.client_list: client.close_ssh_session()
close_all_connections(ss, clients) ==
    [a \in DOMAIN ss |->
        IF InList(clients, a) THEN [ss[a] EXCEPT !.closed = @ + 1] ELSE ss[a]]

\* sys.exit(error) at the end of _exit
Exit(code) == pc' = "exited" /\ exit_code' = code

\* _exit(msg, error), lines 325-332: the sessions of the client list are
\* closed, then the process ends
_exit(code) ==
    /\ sessions' = close_all_connections(sessions, client_list)
    /\ Exit(code)

\* the variables of the pools other than the sessions
poolRest == <<threads, client_list, queue, retrieved, report_num, extra_files,
              extra_run,
              interrupted, archive>>

----------------------------------------------------------------------------
(* SpecParse: parse_node_strings on the --nodes strings of the command line *)

RawAlphabet == { "a", ",", "[", "]" }

\* 'web-[0-3],db-[0-1]'
ExampleNodes == << "w", "e", "b", "-", "[", "0", "-", "3", "]", ",",
                   "d", "b", "-", "[", "0", "-", "1", "]" >>
ExampleTokens == << << "w", "e", "b", "-", "[", "0", "-", "3", "]" >>,
                    << "d", "b", "-", "[", "0", "-", "1", "]" >> >>

RawInputs ==
    { <<>>, << ExampleNodes >> }
    \cup { << s >> : s \in SeqsUpTo(RawAlphabet, MaxRawLen) }
    \cup { << s, t >> : s \in SeqsUpTo(RawAlphabet, MaxShortLen),
                        t \in SeqsUpTo(RawAlphabet, MaxShortLen) }

ParseInit ==
    /\ pc = "parse"
    /\ raw_nodes \in RawInputs
    /\ opts_nodes = raw_nodes
    /\ hostname = HostFull /\ ip_addrs = << LocalAddr >> /\ opts_master = Empty
    /\ opts_cluster_type = "" /\ no_local = FALSE /\ master = NoMaster
    /\ NoCluster /\ NoPool
    /\ NoRegistry /\ NoOptions /\ NoCreds /\ NoCmd /\ NoGroup
    /\ NoArchive /\ NoJuju /\ NoTar
    /\ node_list = <<>> /\ hostlen = 0 /\ exit_code = 0

ParseNodeStrings ==
    /\ pc = "parse"
    /\ opts_nodes' = parse_node_strings(opts_nodes)
    /\ pc' = "parsed"
    /\ UNCHANGED <<raw_nodes, hostVars, master, clusterVars, nodeVars, poolVars,
                   exit_code, prepVars>>

ParseNext == ParseNodeStrings

SpecParse == ParseInit /\ [][ParseNext]_vars

----------------------------------------------------------------------------
(* SpecNodes: prep from the choice of the profile to the end of get_nodes *)

NodesInit ==
    /\ pc = "primary_opened"
    /\ NoParse
    /\ opts_nodes \in SeqsUpTo(TokenNames, MaxEntries)
                        \cup { << PatB >>, << PatAny1 >>, << PatClass >> }
    /\ HostConfig
    /\ opts_cluster_type \in { "", "none", "prof" }
    /\ NoCluster /\ NoPool
    /\ clusters = << "jbon", "prof" >> /\ enabled \in SUBSET { "prof" }
    /\ NoOptions /\ NoCreds /\ NoCmd /\ NoGroup
    /\ NoArchive /\ NoJuju /\ NoTar
    /\ node_list = <<>> /\ hostlen = Len(PrimaryName)
    /\ exit_code = 0

\* prep, lines 643-656.  With --cluster-type the profile is taken from the
\* registry and self.cluster_type is not assigned; otherwise
\* determine_cluster leaves None or the matching profile and its name.
SelectCluster ==
    /\ pc = "primary_opened"
    /\ LET found == determine_cluster(clusters, enabled) IN
         /\ cluster' = IF opts_cluster_type = "" THEN found
                       ELSE IF opts_cluster_type = "none" THEN "jbon"
                       ELSE opts_cluster_type
         /\ cluster_type' = IF opts_cluster_type = "" /\ found # "None"
                            THEN found ELSE cluster_type
    /\ IF cluster' = "None" /\ opts_nodes = <<>>
       THEN _exit(1)
       ELSE pc' = "get_nodes" /\ UNCHANGED <<exit_code, sessions>>
    /\ UNCHANGED <<parseVars, hostVars, master, enum, nodeVars, poolRest,
                   prepVars>>

\* what the profile's _get_nodes() may answer
ProfileAnswers(room) ==
    IF cluster_type = Unset THEN { Raises }
    ELSE SeqsUpTo(EnumNames, room) \cup { Raises }
         \cup (IF opts_nodes = << PatB >> THEN { ExampleEnum } ELSE {})

\* get_nodes, with the profile answering one of the lists of answers
GetNodesFrom(answers) ==
    /\ pc = "get_nodes"
    /\ \E answer \in answers :
         LET r == get_nodes(cluster_type, answer, opts_nodes, node_list, hostname,
                            ip_addrs, no_local, master, opts_master)
         IN  /\ enum' = answer
             /\ IF master = NoMaster /\ cluster = "None"
                THEN /\ _exit(1)
                     /\ UNCHANGED <<opts_nodes, nodeVars>>
                ELSE /\ \E final \in r.finals :
                          /\ node_list' = final
                          /\ hostlen' = HostLen(final, opts_master)
                     /\ opts_nodes' = r.opts_nodes
                     /\ pc' = "nodes_done"
                     /\ UNCHANGED <<exit_code, sessions>>
    /\ UNCHANGED <<raw_nodes, hostVars, master, cluster, cluster_type, poolRest,
                   prepVars>>

GetNodes == GetNodesFrom(ProfileAnswers(MaxEntries - Len(opts_nodes)))

NodesNext == SelectCluster \/ GetNodes

SpecNodes == NodesInit /\ [][NodesNext]_vars

----------------------------------------------------------------------------
(* SpecCluster: the choice of the profile in prep, over every registry order *)

\* the profiles of the registry: the null profile, which never matches, one
\* profile with no derived profile, and a chain of three layers
Profiles      == { "jbon", "kubernetes", "ovirt", "rhv", "rhhi_virt" }
AutoProfiles  == Profiles \ { "jbon" }

ClusterInit ==
    /\ pc = "primary_opened"
    /\ NoParse
    /\ opts_nodes \in { <<>>, << NodeA >> }
    /\ HostConfig
    /\ opts_cluster_type \in { "", "none", "ovirt" }
    /\ NoCluster /\ NoPool
    /\ clusters \in ListsOfSet(Profiles) /\ enabled \in SUBSET AutoProfiles
    /\ NoOptions /\ NoCreds /\ NoCmd /\ NoGroup
    /\ NoArchive /\ NoJuju /\ NoTar
    /\ node_list = <<>> /\ hostlen = Len(PrimaryName)
    /\ exit_code = 0

ClusterNext == SelectCluster

SpecCluster == ClusterInit /\ [][ClusterNext]_vars

----------------------------------------------------------------------------
(* SpecOptions: the -c options, from parse_cluster_options to their coercion *)

ClOvirt     == << "o", "v", "i", "r", "t" >>
NoDatabase  == << "n", "o", "-", "d", "a", "t", "a", "b", "a", "s", "e" >>
StrOption   == << "c", "l", "u", "s", "t", "e", "r" >>
IntOption   == << "l", "i", "m", "i", "t" >>
Undeclared  == << "b", "o", "g", "u", "s" >>

\* the options the loaded profiles declare: a bool, a string and an integer
DeclaredOptions ==
    << ClusterOption(NoDatabase, PyFalse, "bool", ClOvirt),
       ClusterOption(StrOption, <<>>, "str", ClOvirt),
       ClusterOption(IntOption, << "5" >>, "int", ClOvirt) >>

\* the texts given after '=': the accepted words of a bool in several letter
\* cases (one followed by a blank and more), a word that is none of them,
\* two numerals and a letter
TrueTexts  == { << "t", "r", "u", "e" >>, << "T", "r", "u", "e" >>, << "O", "N" >>, << "o", "n", " ", "x" >> }
FalseTexts == { << "F", "a", "l", "s", "e" >>, << "o", "f", "f" >>, << "O", "F", "F" >> }
OtherTexts == { << "m", "a", "y", "b", "e" >>, << "7" >>, << "1", "2" >>, << "x" >> }

\* the values parse_cluster_options makes of TrueTexts and of FalseTexts
TrueWords  == { << "t", "r", "u", "e" >>, << "T", "r", "u", "e" >>, << "O", "N" >>, << "o", "n" >> }
FalseWords == FalseTexts

\* 'cluster.name=text' and 'cluster.name'
OptionText(clust, name, text) == clust \o << "." >> \o name \o << "=" >> \o text
BareOption(clust, name) == clust \o << "." >> \o name

\* the -c strings that are drawn; the last one holds no '.'
RawOptions ==
    LET names == { NoDatabase, StrOption, IntOption, Undeclared }
    IN  { OptionText(ClOvirt, n, t) :
             n \in names, t \in TrueTexts \cup FalseTexts \cup OtherTexts }
        \cup { BareOption(ClOvirt, n) : n \in names }
        \cup { IntOption \o << "=", "7" >> }

OptionsInit ==
    /\ pc = "parse_cluster_options"
    /\ NoParse /\ opts_nodes = <<>>
    /\ hostname = HostFull /\ ip_addrs = << LocalAddr >> /\ opts_master = Empty
    /\ opts_cluster_type = "" /\ no_local = FALSE /\ master = NoMaster
    /\ NoCluster /\ NoPool
    /\ clusters = << "jbon", "ovirt" >> /\ enabled = {}
    /\ cluster_options \in SeqsUpTo(RawOptions, MaxOptions)
    /\ options = DeclaredOptions
    /\ NoCreds /\ NoCmd /\ NoGroup
    /\ NoArchive /\ NoJuju /\ NoTar
    /\ node_list = <<>> /\ hostlen = 0 /\ exit_code = 0

optionsFrame == <<parseVars, hostVars, master, clusterVars, nodeVars, poolVars,
                  registryVars, credVars, cmdVars, groupVars, archiveVars,
                  jujuVars, tarVars>>

\* __init__, line 104.  An IndexError leaves through 'except Exception: raise'
\* and ends the process with a traceback and status 1.
ParseClusterOptions ==
    /\ pc = "parse_cluster_options"
    /\ IF \E i \in 1..Len(cluster_options) : OptionRaises(cluster_options[i])
       THEN /\ pc' = "raised" /\ exit_code' = 1
            /\ UNCHANGED cluster_options
       ELSE /\ cluster_options' = parse_cluster_options(cluster_options)
            /\ pc' = "verify_cluster_options"
            /\ UNCHANGED exit_code
    /\ UNCHANGED <<options, optionsFrame>>

\* __init__, line 113
VerifyClusterOptions ==
    /\ pc = "verify_cluster_options"
    /\ IF verify_cluster_options(cluster_options, options)
       THEN Exit(1)
       ELSE pc' = "validate_options" /\ UNCHANGED exit_code
    /\ UNCHANGED <<cluster_options, options, optionsFrame>>

\* the coercion of the user's values into the declared options
ValidateOptions ==
    /\ pc = "validate_options"
    /\ LET r == ApplyOptions(cluster_options, 1, options)
       IN  IF r.exits
           THEN Exit(1) /\ UNCHANGED options
           ELSE options' = r.options /\ pc' = "options_done"
                /\ UNCHANGED exit_code
    /\ UNCHANGED <<cluster_options, optionsFrame>>

OptionsNext == ParseClusterOptions \/ VerifyClusterOptions \/ ValidateOptions

SpecOptions == OptionsInit /\ [][OptionsNext]_vars

----------------------------------------------------------------------------
(* SpecCreds: the passwords prep asks for *)

\* what the user may type at a getpass() prompt
Entered == { <<>>, << "p" >>, << "q" >> }

CredsInit ==
    /\ pc = "credentials"
    /\ NoParse /\ opts_nodes = <<>>
    /\ hostname = HostFull /\ ip_addrs = << LocalAddr >> /\ opts_master = Empty
    /\ opts_cluster_type = "" /\ no_local = FALSE /\ master = NoMaster
    /\ NoCluster /\ NoPool
    /\ clusters = << "jbon", "ovirt" >> /\ enabled = {}
    /\ NoOptions /\ NoCmd /\ NoGroup
    /\ NoArchive /\ NoJuju /\ NoTar
    /\ \E given, per_node, insecure, become \in BOOLEAN :
         \E user \in { "root", "ops" } :
            creds = [DefaultCreds EXCEPT
                        !.password_given = given,
                        !.password = IF given THEN PyTrue ELSE PyFalse,
                        !.password_per_node = per_node,
                        !.ssh_user = user,
                        !.insecure_sudo = insecure,
                        !.become_root = become]
    \* _parse_options, line 340
    /\ need_sudo = (creds.ssh_user # "root")
    /\ prompts = <<>> /\ node_prompts = <<>>
    /\ node_list = <<>> /\ hostlen = 0 /\ exit_code = 0

\* prep, lines 585-620
ResolveCredentials ==
    /\ pc = "credentials"
    /\ \E e1, e2, e3 \in Entered :
         LET st == BecomeRoot(
                     SudoPassword(
                        SshPassword(CredState(creds, need_sudo, prompts), e1),
                        e2),
                     e3)
         IN  /\ creds' = st.creds
             /\ need_sudo' = st.need_sudo
             /\ prompts' = st.prompts
    /\ pc' = "credentials_done"
    /\ UNCHANGED <<node_prompts, parseVars, hostVars, master, clusterVars, nodeVars, poolVars,
                   exit_code, registryVars, optionVars, cmdVars, groupVars,
                   archiveVars, jujuVars, tarVars>>

CredsNext == ResolveCredentials

SpecCreds == CredsInit /\ [][CredsNext]_vars

----------------------------------------------------------------------------
(* SpecSosCmd: configure_sos_cmd, the last step of prep *)

\* the characters --sos-cmd strings are drawn from
CmdAlphabet == { "a", " ", "'", "&", "|", ">", "<", ";" }

SosCmdInit ==
    /\ pc = "configure_sos_cmd"
    /\ NoParse /\ opts_nodes = <<>>
    /\ hostname = HostFull /\ ip_addrs = << LocalAddr >> /\ opts_master = Empty
    /\ opts_cluster_type = "" /\ no_local = FALSE
    /\ master = Session(Localhost, HostFull, TRUE)
    /\ NoCluster /\ NoPool
    /\ clusters = << "jbon", "ovirt" >> /\ enabled = {}
    /\ NoOptions /\ NoCreds /\ NoGroup
    /\ NoArchive /\ NoJuju /\ NoTar
    /\ \E line \in SeqsUpTo(CmdAlphabet, MaxCmdLen) :
       \E case \in { <<>>, << "7" >> } :
       \E allopts, logs, verify \in BOOLEAN :
       \E size \in { 0, 5 } :
       \E root \in { <<>>, << "/", "r" >> } :
       \E chroot \in { <<>>, << "a", "u", "t", "o" >> } :
       \E compression \in { <<>>, << "x", "z" >> } :
          sos_opts = [sos_opt_line |-> line, case_id |-> case,
                      alloptions |-> allopts, all_logs |-> logs,
                      verify |-> verify, log_size |-> size, sysroot |-> root,
                      chroot |-> chroot, compression |-> compression]
    /\ sos_cmd = <<>>
    /\ node_list = << NodeA >> /\ hostlen = 1 /\ exit_code = 0

\* prep, line 670.  A TypeError leaves prep and __init__ ('except Exception:
\* raise') and ends the process with a traceback and status 1.
ConfigureSosCmd ==
    /\ pc = "configure_sos_cmd"
    /\ LET r == configure_sos_cmd(sos_opts)
       IN  /\ sos_cmd' = r.cmd
           /\ sos_opts' = [sos_opts EXCEPT !.sos_opt_line = r.sos_opt_line]
           /\ IF r.raised
              THEN pc' = "raised" /\ exit_code' = 1
              ELSE pc' = "configured" /\ UNCHANGED exit_code
    /\ UNCHANGED <<parseVars, hostVars, master, clusterVars, nodeVars, poolVars,
                   registryVars, optionVars, credVars, groupVars, archiveVars,
                   jujuVars, tarVars>>

SosCmdNext == ConfigureSosCmd

SpecSosCmd == SosCmdInit /\ [][SosCmdNext]_vars

----------------------------------------------------------------------------
(* SpecGroup: a run that saves a host group, and a later run that loads one *)

GroupG       == << "g" >>          \* the name given with --save-group
MissingGroup == << "h" >>          \* a name no file has
SlashName    == << "a", "\\" >>
QuoteName    == << "\"", "," >>

\* the names of the nodes of the saving run
GroupNames == { NodeA, NodeB, SlashName, QuoteName }

GroupE       == << "e" >>          \* a group written by hand

\* a group file left by an earlier run
OldCfg == HostGroupCfg(GroupG, MasterAddr, "ovirt", << NodeB >>)
OldDoc == JsonDump(OldCfg)

\* a group file that names nodes only: its other fields are empty strings
SparseCfg == HostGroupCfg(GroupE, Empty, "", << NodeB >>)
SparseDoc == JsonDump(SparseCfg)

\* what the later run may give as --master
GivenMaster == << "c" >>

\* the saving run, after get_nodes (line 661)
GroupInit ==
    /\ pc = "nodes_done"
    /\ NoParse /\ opts_nodes = <<>>
    /\ HostConfig
    /\ opts_cluster_type = ""
    /\ cluster_type \in { Unset, "prof", "ovirt" }
    /\ cluster = (IF cluster_type = Unset THEN "None" ELSE cluster_type)
    /\ enum = <<>>
    /\ node_list \in { l \in SeqsUpTo(GroupNames, MaxGroupNodes) : NoDuplicates(l) }
    /\ hostlen = HostLen(node_list, opts_master)
    /\ NoPool
    /\ clusters = << "jbon", "ovirt", "prof" >> /\ enabled = {}
    /\ NoOptions /\ NoCreds /\ NoCmd /\ NoArchive /\ NoJuju /\ NoTar
    /\ group = <<>>
    /\ save_group \in { <<>>, GroupG }
    /\ lib_dir \in BOOLEAN
    /\ group_files \in { << >>, GroupG :> OldDoc,
                         [n \in { GroupG, GroupE } |->
                             IF n = GroupG THEN OldDoc ELSE SparseDoc] }
    /\ lib_dir \/ group_files = << >>
    /\ cfg = NoCfg
    /\ exit_code = 0

\* prep, lines 662-668: write_host_group raises AttributeError while
\* self.cluster_type does not exist and OSError when the directory is
\* missing; prep logs either and goes on
WriteHostGroup ==
    /\ pc = "nodes_done"
    /\ IF save_group # <<>> /\ cluster_type # Unset
       THEN /\ cfg' = HostGroupCfg(save_group, opts_master, cluster_type, node_list)
            /\ group_files' =
                  IF lib_dir
                  THEN [n \in DOMAIN group_files \cup { save_group } |->
                          IF n = save_group THEN JsonDump(cfg') ELSE group_files[n]]
                  ELSE group_files
       ELSE UNCHANGED <<cfg, group_files>>
    /\ pc' = "intro"
    /\ UNCHANGED <<parseVars, hostVars, master, clusterVars, nodeVars, poolVars,
                   exit_code, registryVars, optionVars, credVars, cmdVars,
                   group, save_group, lib_dir, archiveVars, jujuVars, tarVars>>

\* a later run is started with --group and, each given or left at its
\* default (lines 43-77, 82-85), --master, --cluster-type and --nodes, and
\* asks for no password; the files stay, and cfg keeps what the saving run
\* built
NextRun ==
    /\ pc = "intro"
    /\ pc' = "credentials_done"
    /\ group' \in { <<>>, GroupG, GroupE, MissingGroup }
    /\ save_group' = <<>>
    /\ opts_master' \in { Empty, GivenMaster }
    /\ opts_cluster_type' \in { "", "prof" }
    /\ no_local' = FALSE
    /\ opts_nodes' \in { <<>>, << NodeC >> }
    /\ master' = NoMaster
    /\ cluster' = "None" /\ cluster_type' = Unset
    /\ node_list' = <<>>
    /\ hostlen' = Len(IF opts_master' # Empty THEN opts_master' ELSE hostname)
    /\ UNCHANGED <<raw_nodes, hostname, ip_addrs, enum, poolVars, exit_code,
                   registryVars, optionVars, credVars, cmdVars,
                   lib_dir, group_files, cfg, archiveVars, jujuVars, tarVars>>

\* lines 517-524: the file the group names, found under COLLECTOR_LIB_DIR
\* (the names drawn are no paths of their own)
GroupFound == lib_dir /\ group \in DOMAIN group_files

\* prep, lines 622-627: OSError('Group not found') is caught and logged
LoadGroup ==
    /\ pc = "credentials_done"
    /\ IF group # <<>> /\ GroupFound
       THEN LET o == _load_group_config(group_files[group], opts_master,
                                        opts_cluster_type, opts_nodes)
            IN  /\ opts_master' = o.master
                /\ opts_cluster_type' = o.cluster_type
                /\ opts_nodes' = o.nodes
       ELSE UNCHANGED <<opts_master, opts_cluster_type, opts_nodes>>
    /\ pc' = "open_primary"
    /\ UNCHANGED <<raw_nodes, hostname, ip_addrs, no_local, master, clusterVars,
                   nodeVars, poolVars, exit_code, prepVars>>

\* prep, lines 629-641: the primary session; the constructor may raise, which
\* ends the run through _exit
OpenPrimary ==
    /\ pc = "open_primary"
    /\ \E result \in { "connected", "unconnected", "raises" } :
         IF result = "raises"
         THEN _exit(1) /\ UNCHANGED <<master, no_local>>
         ELSE /\ master' = IF opts_master # <<>>
                           THEN Session(opts_master, MasterHost, result = "connected")
                           ELSE Session(Localhost, hostname, result = "connected")
              /\ sessions' = [a \in { master'.address } |->
                                 NewSession(master'.connected, master'.local)]
              /\ no_local' = (opts_master # <<>> \/ no_local)
              /\ pc' = "primary_opened"
              /\ UNCHANGED exit_code
    /\ UNCHANGED <<parseVars, hostname, ip_addrs, opts_master, opts_cluster_type,
                   clusterVars, nodeVars, poolRest, prepVars>>

GroupNext == WriteHostGroup \/ NextRun \/ LoadGroup \/ OpenPrimary

SpecGroup == GroupInit /\ [][GroupNext]_vars

----------------------------------------------------------------------------
(* SpecArchive: the name of the archive's root directory *)

\* longest --label drawn
MaxLabelLen == 2

\* the characters --label and --case-id (of one character at most) are drawn
\* from
LabelAlphabet == { "a", "B", "7", "-", "_", " ", "/" }

\* what strftime('%Y-%m-%d') may give
Dates ==
    { << "2", "0", "2", "3", "-", "0", "1", "-", "0", "9" >>,
      << "1", "9", "9", "9", "-", "1", "2", "-", "3", "1" >> }

\* the letters random.choice is let to draw, of string.ascii_lowercase
DrawnLetters == { "a", "z" }

ArchiveInit ==
    /\ pc = "name_archive"
    /\ NoParse /\ opts_nodes = <<>>
    /\ hostname = HostFull /\ ip_addrs = << LocalAddr >> /\ opts_master = Empty
    /\ opts_cluster_type = "" /\ no_local = FALSE
    /\ master = Session(Localhost, HostFull, TRUE)
    /\ NoCluster /\ NoPool /\ NoRegistry /\ NoOptions /\ NoCreds /\ NoGroup
    /\ NoJuju /\ NoTar
    /\ label \in SeqsUpTo(LabelAlphabet, MaxLabelLen)
    /\ \E case \in SeqsUpTo(LabelAlphabet, 1) :
          sos_opts = [DefaultSosOpts EXCEPT !.case_id = case]
    /\ sos_cmd = <<>> /\ arc_name = <<>>
    /\ node_list = << NodeA >> /\ hostlen = 1 /\ exit_code = 0

\* _get_archive_path, line 496
GetArchiveName ==
    /\ pc = "name_archive"
    /\ \E dt \in Dates :
       \E rand \in { r \in SeqsUpTo(DrawnLetters, 5) : Len(r) = 5 } :
          arc_name' = _get_archive_name(label, sos_opts.case_id, dt, rand)
    /\ pc' = "archive_named"
    /\ UNCHANGED <<parseVars, hostVars, master, clusterVars, nodeVars, poolVars,
                   exit_code, registryVars, optionVars, credVars, cmdVars,
                   groupVars, label, jujuVars, tarVars>>

ArchiveNext == GetArchiveName

SpecArchive == ArchiveInit /\ [][ArchiveNext]_vars

----------------------------------------------------------------------------
(* SpecJuju: _parse_option_string on the strings of the profile's options *)

\* longest option string drawn
MaxOptionLen == 4

\* the characters option strings are drawn from
OptionAlphabet == { " ", "a", "," }

\* '    a,b,c', the string of test_parse_option_string, and '   a,b,c'
TestString  == << " ", " ", " ", " ", "a", ",", "b", ",", "c" >>
ThreeBlanks == << " ", " ", " ", "a", ",", "b", ",", "c" >>

JujuInit ==
    /\ pc = "parse_option"
    /\ NoParse /\ opts_nodes = <<>>
    /\ hostname = HostFull /\ ip_addrs = << LocalAddr >> /\ opts_master = Empty
    /\ opts_cluster_type = "" /\ no_local = FALSE /\ master = NoMaster
    /\ NoCluster /\ NoPool
    /\ NoRegistry /\ NoOptions /\ NoCreds /\ NoCmd /\ NoGroup
    /\ NoArchive /\ NoTar
    /\ option_string \in SeqsUpTo(OptionAlphabet, MaxOptionLen)
                           \cup { PyNone, TestString, ThreeBlanks }
    /\ option_list = <<>>
    /\ node_list = <<>> /\ hostlen = 0 /\ exit_code = 0

\* a call of _parse_option_string; PyNone is the call with no argument
ParseOptionString ==
    /\ pc = "parse_option"
    /\ option_list' = _parse_option_string(option_string)
    /\ pc' = "option_parsed"
    /\ UNCHANGED <<parseVars, hostVars, master, clusterVars, nodeVars, poolVars,
                   exit_code, registryVars, optionVars, credVars, cmdVars,
                   groupVars, archiveVars, option_string, tarVars>>

JujuNext == ParseOptionString

SpecJuju == JujuInit /\ [][JujuNext]_vars

----------------------------------------------------------------------------
(* SpecTar: create_sos_archive, from tarfile.open to the end of the process *)

\* most files in the file list of the first session
MaxFiles == 2

Md5     == << ".", "m", "d", "5" >>
TarRoot == << "r" >>               \* self.arc_name, as _get_archive_path left it

\* the names of retrieved files that are drawn: plain, a checksum, the same
\* basename in two directories, and a directory whose name holds '.md5'
FileNames == { << "f" >>, << "f" >> \o Md5, << "d", "/", "f" >>,
               << "e", "/", "f" >>, << "x" >> \o Md5 \o << "/", "f" >> }

LogNames == << << "s", "o", "s", "-", "c", "o", "l", "l", "e", "c", "t", "o", "r", ".", "l", "o", "g" >>,
               << "u", "i", ".", "l", "o", "g" >> >>

\* fname.split('/')[-1]
Basename(fname) == LET parts == Split(fname, "/") IN parts[Len(parts)]

\* lines 976-981: the member name a retrieved file is added under
MemberName(root, fname) ==
    IF HasSubstring(fname, Md5)
    THEN root \o << "/", "m", "d", "5", "/" >> \o Basename(fname)
    ELSE root \o << "/" >> \o Basename(fname)

\* lines 989-996: the member names of the two log files
LogMember(root, k) == root \o << "/", "l", "o", "g", "s", "/" >> \o LogNames[k]

\* lines 973-974: the (host, fname) pairs in the order the loops visit them
RECURSIVE FilesOf(_, _, _)
FilesOf(clients, lists, k) ==
    IF k > Len(clients) THEN <<>>
    ELSE [i \in 1..Len(lists[clients[k]]) |->
             [host |-> clients[k], fname |-> lists[clients[k]][i]]]
         \o FilesOf(clients, lists, k + 1)

\* collect() at line 932: both pools are joined, the sessions are closed, and
\* every session of the client list retrieved the files of its file list
TarInit ==
    /\ pc = "create_sos_archive"
    /\ NoParse /\ opts_nodes = <<>>
    /\ hostname = HostFull /\ ip_addrs = << LocalAddr >> /\ opts_master = Empty
    /\ opts_cluster_type = "" /\ no_local = TRUE
    /\ master = Session(Localhost, HostFull, FALSE)
    /\ NoCluster /\ NoRegistry /\ NoOptions /\ NoCreds /\ NoCmd /\ NoGroup
    /\ NoJuju
    /\ label = <<>> /\ arc_name = <<>>
    /\ client_list \in { << NodeA >>, << NodeA, NodeB >> }
    /\ node_list = client_list /\ hostlen = 1
    /\ threads = 1
    /\ sessions = [a \in Range(client_list) |->
                      [NewSession(TRUE, FALSE) EXCEPT !.runs = 1,
                                                      !.outcome = "retrieved",
                                                      !.retrieved = TRUE,
                                                      !.closed = 1]]
    /\ queue = <<>> /\ retrieved = Len(client_list)
    /\ report_num = Len(client_list)
    /\ extra_files = FALSE /\ extra_run = FALSE
    /\ interrupted = FALSE /\ archive = "none"
    /\ file_list \in [Range(client_list) -> SeqsUpTo(FileNames, MaxFiles)]
    /\ \A a \in Range(client_list) :
          /\ file_list[a] # <<>> /\ NoDuplicates(file_list[a])
          /\ a # NodeA => Len(file_list[a]) = 1
    /\ tar = <<>> /\ todo = <<>> /\ skipped = <<>>
    /\ exit_code = 0

tarFrame == <<parseVars, hostVars, master, clusterVars, nodeVars, threads,
              client_list, queue, retrieved, report_num, extra_files,
              extra_run, interrupted, registryVars, optionVars, credVars,
              cmdVars, groupVars, label, jujuVars, file_list>>

\* lines 970-972: _get_archive_path and tarfile.open; either may raise, which
\* line 1000 turns into _exit(msg, 2)
OpenTar ==
    /\ pc = "create_sos_archive"
    /\ \E opened \in BOOLEAN :
         IF opened
         THEN /\ arc_name' = TarRoot
              /\ todo' = FilesOf(client_list, file_list, 1)
              /\ pc' = "tar_files"
              /\ UNCHANGED <<archive, sessions, exit_code>>
         ELSE /\ archive' = "failed"
              /\ _exit(2)
              /\ UNCHANGED <<arc_name, todo>>
    /\ UNCHANGED <<tarFrame, tar, skipped>>

\* a mutant of TarAdd: an add that raises ends create_sos_archive
TarAdd_FailureAborts ==
    /\ pc = "tar_files" /\ todo # <<>>
    /\ LET f == Head(todo) IN
       \E added \in BOOLEAN :
         IF added
         THEN /\ tar' = Append(tar, [arcname |-> MemberName(arc_name, f.fname),
                                     host |-> f.host, fname |-> f.fname])
              /\ todo' = Tail(todo)
              /\ UNCHANGED <<pc, skipped, archive, sessions, exit_code>>
         ELSE /\ skipped' = Append(skipped, f)
              /\ archive' = "failed"
              /\ _exit(2)
              /\ UNCHANGED <<tar, todo>>
    /\ UNCHANGED <<tarFrame, arc_name>>

\* lines 975-988: one file of one session; tar.add may raise, which is
\* logged, and the loop goes on
TarAdd ==
    /\ pc = "tar_files" /\ todo # <<>>
    /\ LET f == Head(todo) IN
       \E added \in BOOLEAN :
         IF added
         THEN /\ tar' = Append(tar, [arcname |-> MemberName(arc_name, f.fname),
                                     host |-> f.host, fname |-> f.fname])
              /\ UNCHANGED skipped
         ELSE /\ skipped' = Append(skipped, f)
              /\ UNCHANGED tar
    /\ todo' = Tail(todo)
    /\ UNCHANGED <<pc, tarFrame, arc_name, archive, sessions, exit_code>>

\* the members of the log files that were added before one add raised
LogMembers(n) ==
    [k \in 1..n |-> [arcname |-> LogMember(arc_name, k),
                      host |-> Localhost, fname |-> LogNames[k]]]

\* lines 989-997 and create_cluster_archive: the two log files are added and
\* the process ends with status 0, or an add raises and line 1000 calls
\* _exit(msg, 2)
TarAddLogs ==
    /\ pc = "tar_files" /\ todo = <<>>
    /\ \E n \in 0..Len(LogNames) :
         /\ tar' = tar \o LogMembers(n)
         /\ IF n = Len(LogNames)
            THEN archive' = "written" /\ Exit(0) /\ UNCHANGED sessions
            ELSE archive' = "failed" /\ _exit(2)
    /\ UNCHANGED <<tarFrame, arc_name, todo, skipped>>

TarNext == OpenTar \/ TarAdd \/ TarAddLogs

SpecTar == TarInit /\ [][TarNext]_vars

----------------------------------------------------------------------------
(* SpecCollect: collect(), from its first line to the end of the process *)

\* the node lists collect() is started with: get_nodes leaves no duplicate
\* and no empty string, in any order; the three nodes are alike, so one order
\* of each set of them is drawn, and one list that still holds a name of the
\* primary
CollectLists ==
    { <<>>, <<NodeA>>, <<NodeA, NodeB>>, <<NodeA, NodeB, NodeC>>,
      <<MasterHost, NodeA>> }

\* hasattr(self.cluster, 'run_extra_cmd')
HasExtraCmd(c) == c = "extra"

CollectInit ==
    /\ pc = "configured"
    /\ NoParse /\ opts_nodes = <<>>
    /\ HostConfig
    /\ opts_cluster_type = ""
    /\ cluster \in { "None", "prof", "extra" }
    /\ cluster_type = cluster /\ enum = <<>>
    /\ node_list \in CollectLists
    \* intro (line 678) has ended the run when there is no node and the
    \* primary is not connected
    /\ node_list # <<>> \/ master.connected
    /\ hostlen = 1
    /\ threads \in 0..MaxThreads
    /\ sessions = [a \in { master.address } |->
                      NewSession(master.connected, master.local)]
    /\ client_list = <<>> /\ queue = <<>>
    /\ retrieved = 0 /\ report_num = 0
    /\ extra_files = FALSE /\ extra_run = FALSE
    /\ interrupted = FALSE /\ archive = "none"
    /\ exit_code = 0
    /\ NoRegistry /\ NoOptions /\ NoCreds /\ NoCmd /\ NoGroup
    /\ NoArchive /\ NoJuju /\ NoTar

collectFrame == <<parseVars, hostVars, master, clusterVars, nodeVars, threads,
                  prepVars>>

\* lines 886-887: the nodes to connect to
NodesToConnect ==
    SelectSeq(node_list, LAMBDA n : n \notin { master.address, master.hostname })

\* pool.map: one work item per element, each at its first step
RECURSIVE Items(_, _)
Items(list, k) ==
    IF k > Len(list) THEN <<>>
    ELSE << [item |-> list[k], step |-> "run", tmp |-> 0] >> \o Items(list, k + 1)

\* the pool's workers take the items in submission order as they fall idle:
\* the items being run are the first self.opts.threads unfinished ones
Running == 1..(IF Len(queue) < threads THEN Len(queue) ELSE threads)

\* the queue once its i-th item has finished
Finished(i) == SubSeq(queue, 1, i - 1) \o SubSeq(queue, i + 1, Len(queue))

\* lines 882-900: the primary joins the client list when it is connected,
\* with --password-per-node a password is asked for each node to connect to,
\* and the first pool is given one connect item per node.  ThreadPoolExecutor
\* raises ValueError for a size below 1, which line 919 turns into os._exit(1).
StartConnect ==
    /\ pc = "configured"
    /\ client_list' = IF master.connected THEN << master.address >> ELSE <<>>
    /\ node_prompts' = IF creds.password_per_node
                       THEN node_prompts \o NodesToConnect ELSE node_prompts
    /\ IF threads < 1
       THEN Exit(1) /\ UNCHANGED queue
       ELSE pc' = "connect_pool" /\ queue' = Items(NodesToConnect, 1)
            /\ UNCHANGED exit_code
    /\ UNCHANGED <<parseVars, hostVars, master, clusterVars, nodeVars, threads,
                   registryVars, optionVars, creds, need_sudo, prompts, cmdVars,
                   groupVars, archiveVars, jujuVars, tarVars, sessions,
                   retrieved,
                   report_num, extra_files, extra_run, interrupted, archive>>

\* a mutant of ConnectToNode: every session that was built joins the client
\* list, connected or not
ConnectToNode_AppendsAll ==
    /\ pc = "connect_pool"
    /\ \E i \in Running :
         LET node == queue[i].item IN
         /\ queue' = Finished(i)
         /\ \E result \in { "connected", "unconnected", "raises" } :
              /\ sessions' =
                   IF result = "raises" THEN sessions
                   ELSE [a \in DOMAIN sessions \cup { node } |->
                          IF a # node THEN sessions[a]
                          ELSE [NewSession(result = "connected", node = Localhost)
                                   EXCEPT !.closed = IF result = "connected" THEN 0 ELSE 1]]
              /\ client_list' = IF result # "raises"
                                THEN Append(client_list, node) ELSE client_list
    /\ UNCHANGED <<pc, collectFrame, retrieved, report_num, extra_files, extra_run,
                   interrupted, archive, exit_code>>

\* _connect_to_node: the constructor raises, or gives a session that is
\* connected (appended to the client list) or not (closed at once)
ConnectToNode ==
    /\ pc = "connect_pool"
    /\ \E i \in Running :
         LET node == queue[i].item IN
         /\ queue' = Finished(i)
         /\ \E result \in { "connected", "unconnected", "raises" } :
              /\ sessions' =
                   IF result = "raises" THEN sessions
                   ELSE [a \in DOMAIN sessions \cup { node } |->
                          IF a # node THEN sessions[a]
                          ELSE [NewSession(result = "connected", node = Localhost)
                                   EXCEPT !.closed = IF result = "connected" THEN 0 ELSE 1]]
              /\ client_list' = IF result = "connected"
                                THEN Append(client_list, node) ELSE client_list
    /\ UNCHANGED <<pc, collectFrame, retrieved, report_num, extra_files, extra_run,
                   interrupted, archive, exit_code>>

\* lines 901-914: the first pool is joined, report_num is set and the second
\* pool is given one collect item per session of the client list
StartCollectPool ==
    /\ pc = "connect_pool"
    /\ queue = <<>>
    /\ report_num' = Len(client_list)
                     - (IF no_local /\ master.address = Localhost THEN 1 ELSE 0)
    /\ queue' = Items(client_list, 1)
    /\ pc' = "collect_pool"
    /\ UNCHANGED <<collectFrame, sessions, client_list, retrieved,
                   extra_files, extra_run, interrupted, archive, exit_code>>

\* a mutant of RunsSosreport: the agent is run on every session
RunsSosreport_Always(client) == TRUE

\* _collect, lines 939-945: whether sosreport() is run on this session
RunsSosreport(client) == ~client.local \/ ~no_local

\* _collect up to the test of client.retrieved: the agent is run (it gives a
\* report, gives none, or raises, for instance on a timeout); an exception
\* ends the item, a report leads on to the increment
CollectRun ==
    /\ pc = "collect_pool"
    /\ \E i \in Running :
         LET client == queue[i].item IN
         /\ queue[i].step = "run"
         /\ \E result \in IF RunsSosreport(sessions[client])
                          THEN { "retrieved", "nothing", "raises" }
                          ELSE { "skipped" } :
              /\ sessions' = IF result = "skipped" THEN sessions
                             ELSE [sessions EXCEPT ![client] =
                                     [@ EXCEPT !.runs = @ + 1,
                                               !.outcome = result,
                                               !.retrieved = (result = "retrieved")]]
              /\ queue' = IF sessions'[client].retrieved /\ result # "raises"
                          THEN [queue EXCEPT ![i].step = "load"]
                          ELSE Finished(i)
    /\ UNCHANGED <<pc, collectFrame, client_list, retrieved, report_num,
                   extra_files, extra_run, interrupted, archive, exit_code>>

\* self.retrieved += 1, first half: the worker reads the counter.  No lock is
\* held, and the read and the write are separate bytecodes between which the
\* interpreter may run another worker.
CollectLoad ==
    /\ pc = "collect_pool"
    /\ \E i \in Running :
         /\ queue[i].step = "load"
         /\ queue' = [queue EXCEPT ![i].step = "store", ![i].tmp = retrieved]
    /\ UNCHANGED <<pc, collectFrame, sessions, client_list, retrieved,
                   report_num, extra_files, extra_run, interrupted, archive, exit_code>>

\* self.retrieved += 1, second half: the worker writes what it read, plus one
CollectStore ==
    /\ pc = "collect_pool"
    /\ \E i \in Running :
         /\ queue[i].step = "store"
         /\ retrieved' = queue[i].tmp + 1
         /\ queue' = Finished(i)
    /\ UNCHANGED <<pc, collectFrame, sessions, client_list, report_num,
                   extra_files, extra_run, interrupted, archive, exit_code>>

\* line 915: the second pool is joined
JoinCollectPool ==
    /\ pc = "collect_pool"
    /\ queue = <<>>
    /\ pc' = "joined"
    /\ UNCHANGED <<collectFrame, sessions, client_list, queue, retrieved,
                   report_num, extra_files, extra_run, interrupted, archive, exit_code>>

\* lines 916-918: KeyboardInterrupt reaches the driver inside the try block;
\* os._exit ends the process at once
Interrupt ==
    /\ pc \in { "connect_pool", "collect_pool" }
    /\ interrupted' = TRUE
    /\ Exit(130)
    /\ UNCHANGED <<collectFrame, sessions, client_list, queue, retrieved,
                   report_num, extra_files, extra_run, archive>>

\* a mutant of RunExtraCmd: the extra command is run whatever the profile is
RunExtraCmd_AnyProfile ==
    /\ pc = "joined"
    /\ extra_run' = TRUE
    /\ \E files \in BOOLEAN : extra_files' = (extra_run' /\ files)
    /\ pc' = "extra_done"
    /\ UNCHANGED <<collectFrame, sessions, client_list, queue, retrieved,
                   report_num, interrupted, archive, exit_code>>

\* lines 923-927: the profile's extra command, and the fetch of its files
RunExtraCmd ==
    /\ pc = "joined"
    /\ extra_run' = HasExtraCmd(cluster)
    /\ \E files \in BOOLEAN : extra_files' = (extra_run' /\ files)
    /\ pc' = "extra_done"
    /\ UNCHANGED <<collectFrame, sessions, client_list, queue, retrieved,
                   report_num, interrupted, archive, exit_code>>

\* a mutant of CloseAll: collect() goes on to the archive without closing
CloseAll_ClosesNothing ==
    /\ pc = "extra_done"
    /\ sessions' = sessions
    /\ pc' = "closed"
    /\ UNCHANGED <<collectFrame, client_list, queue, retrieved, report_num,
                   extra_files, extra_run, interrupted, archive, exit_code>>

\* line 930
CloseAll ==
    /\ pc = "extra_done"
    /\ sessions' = close_all_connections(sessions, client_list)
    /\ pc' = "closed"
    /\ UNCHANGED <<collectFrame, client_list, queue, retrieved, report_num,
                   extra_files, extra_run, interrupted, archive, exit_code>>

\* a mutant of ShouldArchive: the extra files count as a report
ShouldArchive_CountsExtra == retrieved > 0 \/ extra_files

\* line 931
ShouldArchive == retrieved > 0

\* create_cluster_archive when create_sos_archive succeeds: collect() returns
\* and the process ends with status 0
CreateArchive ==
    /\ pc = "closed"
    /\ ShouldArchive
    /\ archive' = "written"
    /\ Exit(0)
    /\ UNCHANGED <<collectFrame, sessions, client_list, queue, retrieved,
                   report_num, extra_files, extra_run, interrupted>>

\* a mutant of CreateArchiveFails: the failure is reported with status 1
CreateArchiveFails_Exit1 ==
    /\ pc = "closed"
    /\ ShouldArchive
    /\ archive' = "failed"
    /\ sessions' = close_all_connections(sessions, client_list)
    /\ Exit(1)
    /\ UNCHANGED <<collectFrame, client_list, queue, retrieved,
                   report_num, extra_files, extra_run, interrupted>>

\* create_sos_archive raises inside its try block: _exit(msg, 2) closes the
\* sessions again and ends the process
CreateArchiveFails ==
    /\ pc = "closed"
    /\ ShouldArchive
    /\ archive' = "failed"
    /\ sessions' = close_all_connections(sessions, client_list)
    /\ Exit(2)
    /\ UNCHANGED <<collectFrame, client_list, queue, retrieved,
                   report_num, extra_files, extra_run, interrupted>>

\* lines 933-935: nothing to archive, _exit(msg, 1)
NothingToArchive ==
    /\ pc = "closed"
    /\ ~ShouldArchive
    /\ sessions' = close_all_connections(sessions, client_list)
    /\ Exit(1)
    /\ UNCHANGED <<collectFrame, client_list, queue, retrieved,
                   report_num, extra_files, extra_run, interrupted, archive>>

CollectNext ==
    \/ StartConnect \/ ConnectToNode \/ StartCollectPool
    \/ CollectRun \/ CollectLoad \/ CollectStore \/ JoinCollectPool
    \/ Interrupt \/ RunExtraCmd \/ CloseAll
    \/ CreateArchive \/ CreateArchiveFails \/ NothingToArchive

SpecCollect == CollectInit /\ [][CollectNext]_vars

----------------------------------------------------------------------------
(* SpecRun: one run, from the passwords of prep to the end of the process *)

\* what the user may type when intro asks for the case id
CaseIds == { <<>>, << "7" >> }

\* a mutant of Intro: the run ends whenever the node list is empty
Intro_NodesOnly ==
    /\ pc = "intro"
    /\ IF node_list = <<>>
       THEN _exit(1) /\ UNCHANGED sos_opts
       ELSE /\ \E batch \in BOOLEAN : \E typed \in CaseIds :
                 sos_opts' = IF sos_opts.case_id = <<>> /\ ~batch
                             THEN [sos_opts EXCEPT !.case_id = typed]
                             ELSE sos_opts
            /\ pc' = "configure_sos_cmd"
            /\ UNCHANGED <<exit_code, sessions>>
    /\ UNCHANGED <<parseVars, hostVars, master, clusterVars, nodeVars, poolRest,
                   registryVars, optionVars, credVars, sos_cmd, groupVars,
                   archiveVars, jujuVars, tarVars>>

\* intro, lines 672-693: the run ends through _exit when there is no node and
\* the primary is not connected; otherwise the case id is asked for unless it
\* was given or --batch is set
Intro ==
    /\ pc = "intro"
    /\ IF node_list = <<>> /\ ~master.connected
       THEN _exit(1) /\ UNCHANGED sos_opts
       ELSE /\ \E batch \in BOOLEAN : \E typed \in CaseIds :
                 sos_opts' = IF sos_opts.case_id = <<>> /\ ~batch
                             THEN [sos_opts EXCEPT !.case_id = typed]
                             ELSE sos_opts
            /\ pc' = "configure_sos_cmd"
            /\ UNCHANGED <<exit_code, sessions>>
    /\ UNCHANGED <<parseVars, hostVars, master, clusterVars, nodeVars, poolRest,
                   registryVars, optionVars, credVars, sos_cmd, groupVars,
                   archiveVars, jujuVars, tarVars>>

\* the command lines of the run: --password, --password-per-node, --master,
\* --cluster-type, --nodes and --no-local, each given or not
RunInit ==
    /\ pc = "credentials"
    /\ NoParse
    /\ opts_nodes \in { <<>>, << NodeA >>, << PatA >> }
    /\ hostname = HostFull /\ ip_addrs = << LocalAddr >>
    /\ opts_master \in { Empty, MasterAddr }
    /\ opts_cluster_type \in { "", "prof" }
    /\ no_local \in BOOLEAN /\ master = NoMaster
    /\ NoCluster /\ NoPool
    /\ clusters = << "jbon", "prof" >> /\ enabled \in SUBSET { "prof" }
    /\ NoOptions /\ NoCmd /\ NoGroup /\ NoArchive /\ NoJuju /\ NoTar
    /\ \E given, per_node \in BOOLEAN :
         creds = [DefaultCreds EXCEPT
                     !.password_given = given,
                     !.password = IF given THEN PyTrue ELSE PyFalse,
                     !.password_per_node = per_node]
    /\ need_sudo = (creds.ssh_user # "root")
    /\ prompts = <<>> /\ node_prompts = <<>>
    /\ node_list = <<>> /\ hostlen = Len(PrimaryName) /\ exit_code = 0

\* what the profile's _get_nodes() may answer in the run
RunAnswers ==
    IF cluster_type = Unset THEN { Raises }
    ELSE { Raises, <<>>, << NodeA, NodeB >> }

RunNext ==
    \/ ResolveCredentials \/ LoadGroup \/ OpenPrimary \/ SelectCluster
    \/ GetNodesFrom(RunAnswers) \/ WriteHostGroup \/ Intro \/ ConfigureSosCmd
    \/ CollectNext

SpecRun == RunInit /\ [][RunNext]_vars

----------------------------------------------------------------------------
(* Claims about the whole run (SpecRun) *)

\* no worker was spawned: no pool was given an item and no session joined the
\* client list
NoWorkerYet == queue = <<>> /\ client_list = <<>>

AfterPrimary == { "primary_opened", "get_nodes", "nodes_done", "intro",
                  "configure_sos_cmd" }

\* C25: when _exit ends the run during prep after the primary session has
\* been opened, every session that was opened (the primary) has been closed.
\* Violated: _exit closes the sessions of the client list, which the primary
\* joins only in collect().
C25_PrimaryClosedAtFatalExit ==
    [][(pc \in AfterPrimary /\ pc' = "exited") =>
          \A a \in DOMAIN sessions' :
             sessions'[a].connected => sessions'[a].closed > 0]_vars

\* the driver's positions once the first pool has been given its items
PoolStarted == { "connect_pool", "collect_pool", "joined", "extra_done",
                 "closed" }

\* C29: with --password-per-node prep issues no shared ssh-password prompt,
\* collect() asks a password once for each node it will connect to (never for
\* the primary) before the connect pool starts, and no password is asked for
\* once the first worker has been spawned.  Violated: prep line 592 asks for
\* the shared ssh password when password_per_node is set.
C29_PerNodePrompts ==
    [][creds.password_per_node =>
          /\ ~InList(prompts', "ssh")
          /\ (pc = "configured" /\ pc' = "connect_pool")
                 => node_prompts' = NodesToConnect
          /\ pc \in PoolStarted
                 => (prompts' = prompts /\ node_prompts' = node_prompts)]_vars

\* the driver's positions between the join of the second pool and the archive
PoolsJoined == { "joined", "extra_done", "closed" }

\* C36: --master sets no-local, and with no-local set the agent is never run
\* on a session local to the driver, no such session is counted as retrieved
\* or is about to add to the count, and once the second pool is joined the
\* agent has been run exactly once on every non-local session of the client
\* list (only connected sessions are in it)
C36_NoLocalSkipsLocal ==
    /\ (opts_master # Empty /\ master # NoMaster) => no_local
    /\ no_local =>
         /\ \A a \in DOMAIN sessions :
               sessions[a].local => (sessions[a].runs = 0 /\ ~sessions[a].retrieved)
         /\ pc = "collect_pool" =>
               \A i \in 1..Len(queue) :
                  queue[i].step # "run" => ~sessions[queue[i].item].local
         /\ pc \in PoolsJoined =>
               \A a \in Range(client_list) :
                  /\ sessions[a].connected
                  /\ ~sessions[a].local => sessions[a].runs = 1

\* no-local was given, the local primary is in the client list next to a
\* node, and the second pool has been joined
C36_Witness ==
    /\ pc = "joined" /\ no_local /\ Len(client_list) = 2
    /\ sessions[client_list[1]].local /\ sessions[client_list[1]].runs = 0
    /\ ~sessions[client_list[2]].local /\ sessions[client_list[2]].retrieved
    /\ retrieved = 1

----------------------------------------------------------------------------
(* Claims about the archive's members (SpecTar) *)

\* the members that are retrieved files (the log files are the driver's own)
RetrievedMembers == { i \in 1..Len(tar) : tar[i].host # Localhost }

\* C31: a retrieved file is placed under root/md5/ if and only if its
\* basename contains '.md5', and directly under the root otherwise, whatever
\* directories its path names.  Violated: line 976 tests the whole path.
C31_Md5ByBasename ==
    \A i \in RetrievedMembers :
       LET base == Basename(tar[i].fname) IN
       tar[i].arcname =
          IF HasSubstring(base, Md5)
          THEN arc_name \o << "/", "m", "d", "5", "/" >> \o base
          ELSE arc_name \o << "/" >> \o base

\* C32: no two retrieved files of a run are stored under the same member
\* name.  Violated: the member name keeps the basename only, so the same
\* basename from two sessions or from two directories gives one name twice.
C32_NoMemberCollision ==
    \A i, j \in RetrievedMembers : tar[i].arcname = tar[j].arcname => i = j

\* the files the loops visited without an exception
AddedFiles == { [host |-> tar[i].host, fname |-> tar[i].fname] : i \in RetrievedMembers }

\* C33: an add that raises skips that file only: the loop goes on with the
\* next file and does not end the run; an archive that is written holds
\* every retrieved file whose add did not raise and the two log files, and
\* the process then ends with status 0; the archive fails only at
\* tarfile.open or at the log files
C33_AddFailureSkipsOneFile ==
    [][/\ skipped' # skipped =>
            /\ skipped' = Append(skipped, Head(todo)) /\ todo' = Tail(todo)
            /\ tar' = tar /\ pc' = "tar_files" /\ archive' = "none"
       /\ archive' = "written" =>
            /\ exit_code' = 0
            /\ AddedFiles' = Range(FilesOf(client_list, file_list, 1))
                                 \ Range(skipped')
            /\ \A k \in 1..Len(LogNames) :
                  \E i \in 1..Len(tar') : tar'[i].arcname = LogMember(arc_name, k)
       /\ archive' = "failed" =>
            (pc = "create_sos_archive" \/ todo = <<>>)]_vars

\* the add of one file raised, the other files and the logs were added and
\* the archive was written
C33_Witness ==
    /\ pc = "exited" /\ exit_code = 0 /\ archive = "written"
    /\ Len(skipped) = 1 /\ Cardinality(AddedFiles) = 2

----------------------------------------------------------------------------
(* Claims about collect() (SpecCollect) *)

\* both pools have been joined and no interrupt ended the run before
CollectFinished ==
    \/ pc \in { "joined", "extra_done", "closed" }
    \/ pc = "exited" /\ ~interrupted /\ threads >= 1

\* the sessions of the client list whose collection retrieved a report
RetrievedSessions == { a \in Range(client_list) : sessions[a].retrieved }

\* C1: once the collect phase has finished, the retrieved count equals the
\* number of sessions of the client list that retrieved a report, whatever
\* the interleaving of the workers
C1_NoLostIncrement ==
    CollectFinished => retrieved = Cardinality(RetrievedSessions)

\* C2: at the end of the collect phase, retrieved <= attempted (report_num)
\* <= the number of nodes plus the primary if it is connected, and attempted
\* is not negative
C2_CountsOrdered ==
    CollectFinished =>
        /\ retrieved <= report_num
        /\ 0 <= report_num
        /\ report_num <= Cardinality(Range(NodesToConnect))
                         + (IF master.connected THEN 1 ELSE 0)

\* C3: an archive is created only if retrieved > 0 at the end of the collect
\* phase; a run whose retrieved count is 0 creates no archive and ends with a
\* non-zero exit code, also when the extra command gave files
C3_ArchiveOnlyIfRetrieved ==
    /\ archive # "none" => retrieved > 0
    /\ (pc = "exited" /\ retrieved = 0) => (archive = "none" /\ exit_code # 0)

\* C3's case: nothing was retrieved from any session, the extra command gave
\* files from the primary, and the run has ended
C3_Witness ==
    /\ pc = "exited" /\ ~interrupted /\ threads >= 1
    /\ retrieved = 0 /\ extra_files
    /\ archive = "none" /\ exit_code = 1

\* the outcome C4 names for a run that has ended
ExpectedExit ==
    IF interrupted THEN 130
    ELSE IF \A a \in DOMAIN sessions : ~sessions[a].retrieved THEN 1
    ELSE IF archive = "failed" THEN 2
    ELSE 0

\* C4: a run that ends, ends with 130 if it was interrupted in the connect or
\* collect phase (and then no archive was attempted), else with 1 if no report
\* was retrieved, else with 2 if creating the archive failed, else with 0 and
\* the archive written
C4_ExitOutcome ==
    pc = "exited" =>
        /\ exit_code = ExpectedExit
        /\ interrupted => archive = "none"
        /\ exit_code = 0 => archive = "written"

\* C4's case: reports were retrieved, creating the archive failed and the run
\* ended with 2
C4_Witness ==
    /\ pc = "exited" /\ exit_code = 2
    /\ archive = "failed" /\ RetrievedSessions # {}

\* C5: when an interrupt ends the run with 130, close was called on every
\* session of the client list
C5_ClosedBeforeInterruptExit ==
    (pc = "exited" /\ exit_code = 130)
        => \A a \in Range(client_list) : sessions[a].closed >= 1

\* three sessions were collected from: one raised (a timeout), two retrieved
PartialFailure ==
    /\ Len(client_list) = 3
    /\ Cardinality({ a \in Range(client_list) : sessions[a].outcome = "raises" }) = 1
    /\ Cardinality({ a \in Range(client_list) : sessions[a].outcome = "retrieved" }) = 2

\* C6: a node's failure keeps no other session from being collected and does
\* not change the outcome while another report is retrieved: with three nodes
\* of which one times out, retrieved is 2, the archive is produced and the
\* run succeeds (unless creating the archive itself fails)
C6_FailureIsolated ==
    (pc = "exited" /\ ~interrupted /\ threads >= 1) =>
        /\ \A a \in Range(client_list) :
              RunsSosreport(sessions[a]) => sessions[a].runs = 1
        /\ PartialFailure =>
              /\ retrieved = 2
              /\ archive # "failed" => (archive = "written" /\ exit_code = 0)

\* C24: while the connect pool runs no sosreport has been started; the items
\* of the collect pool are the sessions of the client list, every session of
\* the client list is connected, and sosreport runs only on connected sessions
\* of that list
C24_CollectAfterConnect ==
    /\ pc = "connect_pool" =>
          (retrieved = 0 /\ \A a \in DOMAIN sessions : sessions[a].runs = 0)
    /\ pc = "collect_pool" =>
          \A i \in 1..Len(queue) : InList(client_list, queue[i].item)
    /\ \A i \in 1..Len(client_list) : sessions[client_list[i]].connected
    /\ \A a \in DOMAIN sessions :
          sessions[a].runs > 0 => (sessions[a].connected /\ InList(client_list, a))

\* C24's case: one node failed to connect, and sosreport has been run on
\* another node
C24_Witness ==
    \E a, b \in DOMAIN sessions :
        /\ a # master.address /\ b # master.address
        /\ ~sessions[a].connected /\ sessions[a].closed = 1
        /\ sessions[b].runs > 0

\* C35: the profile's extra command and the retrieval of its files from the
\* primary happen only after every collect worker has finished and before
\* the primary session is closed, and never when no profile is selected
C35_ExtraCmdOrder ==
    [][(extra_run' # extra_run \/ extra_files' # extra_files) =>
          /\ pc = "joined" /\ queue = <<>>
          /\ \A a \in Range(client_list) : sessions[a].runs = 1
                                              \/ ~RunsSosreport(sessions[a])
          /\ sessions'[master.address].closed = 0
          /\ cluster # "None"]_vars

\* the extra command gave files, they were fetched after a report was
\* retrieved, and the primary was closed afterwards
C35_Witness ==
    /\ pc = "closed" /\ extra_run /\ extra_files /\ retrieved > 0
    /\ master.connected /\ sessions[master.address].closed = 1

\* C37: archive creation starts only after both pools have been joined and
\* close has been called on every session of the client list; when it fails,
\* _exit calls close on the same sessions once more and the process ends
\* with code 2
C37_ArchiveAfterClose ==
    [][archive' # archive =>
          /\ pc = "closed" /\ queue = <<>> /\ report_num >= Len(client_list) - 1
          /\ \A a \in Range(client_list) : sessions[a].closed = 1
          /\ archive' = "failed" =>
                /\ pc' = "exited" /\ exit_code' = 2
                /\ \A a \in Range(client_list) : sessions'[a].closed = 2]_vars

\* the archive of two sessions could not be created: both were closed twice
\* and the process ended with code 2
C37_Witness ==
    /\ pc = "exited" /\ exit_code = 2 /\ archive = "failed"
    /\ Len(client_list) = 2
    /\ \A a \in Range(client_list) : sessions[a].closed = 2

----------------------------------------------------------------------------
(* Claims about the node list (SpecNodes) *)

\* the names of the driver itself
LocalNames == { hostname, SplitFirst(hostname, ".") } \cup Range(ip_addrs)

\* C7: with no-local set, the node list that get_nodes leaves holds none of the
\* driver's full hostname, short hostname and local addresses
C7_NoLocalNames ==
    (pc = "nodes_done" /\ no_local)
        => \A i \in 1..Len(node_list) : node_list[i] \notin LocalNames

\* C8: the node list that get_nodes leaves holds neither the --master address
\* nor the hostname the primary session resolved
C8_PrimaryRemoved ==
    pc = "nodes_done"
        => \A i \in 1..Len(node_list) :
              node_list[i] \notin { opts_master, master.hostname }

\* C9: the node list that get_nodes leaves holds no entry twice and no empty
\* string
C9_NoDuplicatesNoEmpty ==
    pc = "nodes_done" => (NoDuplicates(node_list) /\ ~InList(node_list, Empty))

\* C9's case: a profile enumerated a name twice and an empty string, and
\* get_nodes has left a node list
C9_Witness ==
    /\ pc = "nodes_done"
    /\ enum # Raises /\ ~NoDuplicates(enum) /\ InList(enum, Empty)
    /\ node_list # <<>>

\* the names that reduce_node_list takes out of the list whatever matched
\* them: the driver's own names, the primary's names and the empty string
ReducedNames == LocalNames \cup { opts_master, master.hostname, Empty }

C26_ExplicitProfileEnumerates ==
    (pc = "get_nodes" /\ opts_cluster_type = "prof") =>
        \A answer \in SeqsUpTo(EnumNames, MaxEntries - Len(opts_nodes)) :
            get_nodes(cluster_type, answer, opts_nodes, node_list, hostname,
                      ip_addrs, no_local, master, opts_master)
              = get_nodes(cluster, answer, opts_nodes, node_list, hostname,
                          ip_addrs, no_local, master, opts_master)

\* C27: when the enumeration failed and get_nodes fell back to the --nodes
\* tokens, no entry of the node list holds any of * \ ? ( ) / [ ]
C27_FallbackOnlyLiterals ==
    (pc = "nodes_done" /\ enum = Raises)
        => \A i \in 1..Len(node_list) : ~ContainsAny(node_list[i], RegexMeta)

\* a token with none of the characters * \ ? ( ) / [ ]
IsLiteral(token) == ~ContainsAny(token, RegexMeta)

\* the names get_nodes takes out of the list whoever put them there: the
\* names of the primary, the driver's addresses, and its hostname with no-local
TakenOut ==
    { opts_master, master.hostname } \cup Range(ip_addrs)
        \cup (IF no_local THEN { hostname } ELSE {})

\* the entries that lines 841-847 append to the list of the try block
ForceAdded(ctype, answer, tokens, old_list) ==
    LET src     == NodesFromSources(ctype, answer, tokens, old_list)
        optsnow == IF src.aliased THEN src.list ELSE tokens
        forced  == IF optsnow # <<>> THEN ForceAdd(src.list, optsnow, 1) ELSE src.list
    IN  SubSeq(forced, Len(src.list) + 1, Len(forced))

\* C28 as it is worded: every step of get_nodes leaves each literal token in
\* the node list unless it is one of the names taken out, and force-adds
\* literal tokens only
C28_LiteralTokensKept ==
    [][(pc = "get_nodes" /\ pc' = "nodes_done") =>
          /\ \A i \in 1..Len(opts_nodes) :
                (IsLiteral(opts_nodes[i]) /\ opts_nodes[i] \notin TakenOut)
                    => InList(node_list', opts_nodes[i])
          /\ \A n \in Range(ForceAdded(cluster_type, enum', opts_nodes, node_list)) :
                IsLiteral(n)]_vars

\* C28, stated for the tokens that are not the empty string (which line 800
\* drops from every list)
C28_NonEmptyLiteralTokensKept ==
    [][(pc = "get_nodes" /\ pc' = "nodes_done") =>
          /\ \A i \in 1..Len(opts_nodes) :
                (/\ IsLiteral(opts_nodes[i])
                 /\ opts_nodes[i] # Empty
                 /\ opts_nodes[i] \notin TakenOut)
                    => InList(node_list', opts_nodes[i])
          /\ \A n \in Range(ForceAdded(cluster_type, enum', opts_nodes, node_list)) :
                IsLiteral(n)]_vars

\* C28's case: a literal token that the profile did not enumerate was given
\* beside a pattern that filtered the enumerated names, and is in the node list
C28_Witness ==
    /\ pc = "nodes_done"
    /\ opts_nodes = << PatA, MasterHost, HostShort >>
    /\ enum = <<>> /\ node_list = << HostShort >>

\* C34: after get_nodes, commons['hostlen'] is the maximum length over the
\* names of the node list together with the primary's name.  Violated: lines
\* 858-860 take the maximum over the node list alone, and len(opts.master)
\* when the list is empty.
C34_HostLenIsMax ==
    pc = "nodes_done" =>
       LET lens == { Len(node_list[i]) : i \in 1..Len(node_list) }
                      \cup { Len(PrimaryName) }
       IN  hostlen \in lens /\ \A l \in lens : l <= hostlen

----------------------------------------------------------------------------
(* Claims about the choice of the profile (SpecCluster) *)

\* C12: after auto-detection, no profile that matches the primary derives
\* from the class of the selected profile (other than the selected one)
C12_DerivedSupersedes ==
    (pc # "primary_opened" /\ opts_cluster_type = "" /\ cluster # "None")
        => ~ \E d \in enabled : d # cluster /\ issubclass(d, cluster)

----------------------------------------------------------------------------
(* Claims about the -c options (SpecOptions) *)

\* self.opts.cluster_options holds ClusterOption objects
OptionsParsed == pc \in { "verify_cluster_options", "validate_options",
                          "options_done", "exited" }

\* verify_cluster_options has returned or has ended the run
OptionsVerified == pc \in { "validate_options", "options_done", "exited" }

\* the coercion has been done or has ended the run
OptionsCoerced == pc \in { "options_done", "exited" }

DeclaredNames == { DeclaredOptions[k].name : k \in 1..Len(DeclaredOptions) }

\* the value the declared option of this name has now
OptionValue(name) ==
    options[CHOOSE k \in 1..Len(options) : options[k].name = name].value

\* the positions of the user options given for this name
GivenFor(name) ==
    { i \in 1..Len(cluster_options) : cluster_options[i].name = name }

\* C13: when one of the -c options, at any position, names an option that no
\* profile declares, verify_cluster_options ends the run through _exit with
\* code 1
C13_UnknownOptionFatal ==
    (OptionsVerified /\ \E i \in 1..Len(cluster_options) :
                            cluster_options[i].name \notin DeclaredNames)
        => (pc = "exited" /\ exit_code = 1)

\* C14: for the declared bool option, 'true' and 'on' give true and 'false'
\* and 'off' give false in any letter case, and every other value ends the
\* run through _exit; no-database=False gives false, no-database=maybe is
\* fatal
C14_BoolCoercion ==
    /\ pc = "options_done" =>
         /\ \A i \in GivenFor(NoDatabase) :
               cluster_options[i].value \in TrueWords \cup FalseWords
         /\ \A i \in GivenFor(NoDatabase) :
               (\A j \in GivenFor(NoDatabase) : j <= i) =>
                  OptionValue(NoDatabase)
                     = (IF cluster_options[i].value \in TrueWords
                        THEN PyTrue ELSE PyFalse)
    /\ (OptionsCoerced /\ cluster_options
            = << ClusterOption(NoDatabase, << "F", "a", "l", "s", "e" >>, "str", ClOvirt) >>)
         => (pc = "options_done" /\ OptionValue(NoDatabase) = PyFalse)
    /\ (OptionsCoerced /\ \E i \in GivenFor(NoDatabase) :
            cluster_options[i].value = << "m", "a", "y", "b", "e" >>)
         => (pc = "exited" /\ exit_code = 1)

\* C14's case: no-database=ON was given and the option is true
C14_Witness ==
    /\ pc = "options_done"
    /\ cluster_options = << ClusterOption(NoDatabase, << "O", "N" >>, "str", ClOvirt) >>
    /\ OptionValue(NoDatabase) = PyTrue

\* Python: s is a base-10 numeral
IsNumeral(s) ==
    s # <<>> /\ \A i \in 1..Len(s) :
                   s[i] \in { "0", "1", "2", "3", "4", "5", "6", "7", "8", "9" }

\* C15: when every -c option gives a base-10 numeral for the declared integer
\* option, the run is not ended and the option holds the numeral given last
C15_IntNumeralAccepted ==
    (/\ OptionsCoerced
     /\ cluster_options # <<>>
     /\ \A i \in 1..Len(cluster_options) :
           /\ cluster_options[i].name = IntOption
           /\ IsNumeral(cluster_options[i].value))
        => /\ pc = "options_done"
           /\ OptionValue(IntOption) = cluster_options[Len(cluster_options)].value

----------------------------------------------------------------------------
(* Claims about the passwords (SpecCreds) *)

\* the prompts for the ssh and the sudo password, in the order they were made
LoginPrompts == SelectSeq(prompts, LAMBDA kind : kind \in { "ssh", "sudo" })

\* C16: without per-node passwords, root without --password is asked nothing;
\* a non-root user without --password and without insecure-sudo is asked the
\* sudo password once; with --password the ssh password is asked once and,
\* for a non-root user without insecure-sudo, the sudo password is the ssh
\* password entered, with no second prompt, whatever was entered
C16_PromptMatrix ==
    (pc = "credentials_done" /\ ~creds.password_per_node) =>
        /\ (~creds.password_given /\ creds.ssh_user = "root")
              => LoginPrompts = <<>>
        /\ (~creds.password_given /\ creds.ssh_user # "root"
               /\ ~creds.insecure_sudo)
              => LoginPrompts = << "sudo" >>
        /\ creds.password_given
              => /\ LoginPrompts = << "ssh" >>
                 /\ (creds.ssh_user # "root" /\ ~creds.insecure_sudo)
                       => creds.sudo_pw = creds.password

\* C17: with become-root and a non-root ssh user (no --password, no
\* insecure-sudo) the sudo password is asked once, the root password once,
\* and the sessions escalate with su and the root password, not with sudo;
\* with become-root and ssh user root no root password is asked and
\* become_root is false afterwards
C17_BecomeRoot ==
    pc = "credentials_done" =>
        /\ (creds.ssh_user # "root" /\ creds.become_root
               /\ ~creds.password_given /\ ~creds.password_per_node
               /\ ~creds.insecure_sudo)
              => /\ prompts = << "sudo", "root" >>
                 /\ creds.root_password \in Entered
                 /\ ~need_sudo
                 /\ Escalation(creds, need_sudo) = "su"
        /\ creds.ssh_user = "root"
              => /\ ~InList(prompts, "root")
                 /\ creds.root_password = PyNone
                 /\ ~creds.become_root

\* C17's case: --become with a non-root user and no password option; both
\* passwords were asked for and su is what the sessions use
C17_Witness ==
    /\ pc = "credentials_done"
    /\ creds.ssh_user = "ops" /\ creds.become_root
    /\ ~creds.password_given /\ ~creds.password_per_node /\ ~creds.insecure_sudo
    /\ prompts = << "sudo", "root" >>
    /\ Escalation(creds, need_sudo) = "su"

----------------------------------------------------------------------------
(* Claims about the agent command (SpecSosCmd) *)

\* Python: s.startswith(prefix)
StartsWith(s, prefix) ==
    Len(s) >= Len(prefix) /\ SubSeq(s, 1, Len(prefix)) = prefix

\* the flags of the normal path
FlagTexts == { << "-", "-", "c", "a", "s", "e", "-", "i", "d" >>, << "-", "-", "a", "l", "l", "o", "p", "t", "i", "o", "n", "s" >>, << "-", "-", "a", "l", "l", "-", "l", "o", "g", "s" >>, << "-", "-", "v", "e", "r", "i", "f", "y" >>,
               << "-", "-", "l", "o", "g", "-", "s", "i", "z", "e" >>, << " ", "-", "s", " " >>, << " ", "-", "c", " " >>, << " ", "-", "z", " " >> }

\* C18: an override that holds one of & | > < ; is dropped and leaves nothing
\* in the command, which the normal path builds from the flags; any other
\* override gives 'sosreport --batch' followed by the quoted override alone,
\* with none of the flags; the command starts with 'sosreport --batch'
C18_OverrideFiltered ==
    /\ pc \in { "configured", "raised" } => StartsWith(sos_cmd, SosBase)
    /\ pc = "configured" =>
         /\ ~ContainsAny(sos_cmd, ShellFilter)
         /\ sos_opts.sos_opt_line \in { <<>>, PyNone }
               => sos_cmd = NormalCmd(sos_opts).cmd
         /\ sos_opts.sos_opt_line \notin { <<>>, PyNone }
               => /\ ~ContainsAny(sos_opts.sos_opt_line, ShellFilter)
                  /\ sos_cmd = SosBase \o << " " >> \o quote(sos_opts.sos_opt_line)
                  /\ \A flag \in FlagTexts : ~HasSubstring(sos_cmd, flag)

\* C18's case: the override is a single quote and every flag is set; the
\* command is sosreport --batch ''"'"'' and nothing else
C18_Witness ==
    /\ pc = "configured"
    /\ sos_opts.sos_opt_line = << "'" >>
    /\ sos_opts.alloptions /\ sos_opts.verify /\ sos_opts.case_id # <<>>
    /\ sos_cmd = SosBase \o << " ", "'", "'", "\"", "'", "\"", "'", "'" >>

----------------------------------------------------------------------------
(* Claims about host groups (SpecGroup) *)

\* the loading run is past the load of its host group
GroupLoaded == pc \in { "open_primary", "primary_opened", "exited" }

\* C19: when --group names a group that is found nowhere, the run ends
\* before the primary session is opened
C19_MissingGroupFatal ==
    (GroupLoaded /\ group # <<>> /\ ~GroupFound)
        => (pc = "exited" /\ master = NoMaster)

\* the loading run read the document that the saving run wrote
LoadedWhatWasSaved == GroupLoaded /\ cfg # NoCfg /\ lib_dir /\ group = cfg.name

\* the options --master, --cluster-type and --nodes are at their defaults
DefaultOptions == opts_master = Empty /\ opts_cluster_type = "" /\ opts_nodes = <<>>

\* C20: loading, into a run with default options, the document that
\* write_host_group wrote gives the primary, the cluster type and the nodes
\* that were saved, the nodes in the same order
C20_GroupRoundTrip ==
    [][(pc = "credentials_done" /\ DefaultOptions /\ LoadedWhatWasSaved') =>
          /\ opts_master' = cfg.master
          /\ opts_cluster_type' = cfg.cluster_type
          /\ opts_nodes' = cfg.nodes]_vars

\* C20's case: a primary, a profile and two nodes whose names need escaping
\* were saved, and the later run has loaded them
C20_Witness ==
    /\ LoadedWhatWasSaved
    /\ cfg.master = MasterAddr /\ cfg.cluster_type = "ovirt"
    /\ cfg.nodes = << QuoteName, SlashName >>
    /\ opts_nodes = << QuoteName, SlashName >>

\* the values of the document that --group names: what the saving run
\* wrote under that name, or else what the file held before
GroupContent ==
    IF cfg # NoCfg /\ lib_dir /\ group = cfg.name THEN cfg
    ELSE IF group = GroupG THEN OldCfg ELSE SparseCfg

\* C30: loading a host group replaces --master and --cluster-type by the
\* document's value when that value is not empty and leaves them otherwise,
\* appends the document's nodes to the nodes given, and changes no other
\* option
C30_GroupLoadFrame ==
    [][(pc = "credentials_done" /\ group # <<>> /\ GroupFound) =>
          /\ opts_master' = IF GroupContent.master # <<>>
                            THEN GroupContent.master ELSE opts_master
          /\ opts_cluster_type' = IF GroupContent.cluster_type # ""
                                  THEN GroupContent.cluster_type
                                  ELSE opts_cluster_type
          /\ opts_nodes' = opts_nodes \o GroupContent.nodes
          /\ UNCHANGED <<no_local, threads, group, save_group, cluster_options,
                         creds, sos_opts>>]_vars

\* C30's case: a run given --master, --cluster-type and --nodes has loaded a
\* group that names one node and nothing else
C30_Witness ==
    /\ pc = "open_primary" /\ group = GroupE
    /\ opts_master = GivenMaster /\ opts_cluster_type = "prof"
    /\ opts_nodes = << NodeC, NodeB >>

----------------------------------------------------------------------------
(* Claims about the archive's name (SpecArchive) *)

Digits == { "0", "1", "2", "3", "4", "5", "6", "7", "8", "9" }

Capitals ==
    { "A", "B", "C", "D", "E", "F", "G", "H", "I", "J", "K", "L", "M",
      "N", "O", "P", "Q", "R", "S", "T", "U", "V", "W", "X", "Y", "Z" }

\* [A-Za-z0-9_-]
NameChars == Capitals \cup Lowercase \cup Digits \cup { "_", "-" }

\* s matches -\d{4}-\d{2}-\d{2}-[a-z]{5}
IsDateAndLetters(s) ==
    /\ Len(s) = 17
    /\ s[1] = "-" /\ s[6] = "-" /\ s[9] = "-" /\ s[12] = "-"
    /\ \A i \in { 2, 3, 4, 5, 7, 8, 10, 11 } : s[i] \in Digits
    /\ \A i \in 13..17 : s[i] \in Lowercase

\* s matches (-[A-Za-z0-9_-]+)?(-[A-Za-z0-9_-]+)? : it is empty, or a '-'
\* and one character or more of the class (which holds the '-' itself, so
\* that one group or two match the same strings)
IsLabelAndCase(s) ==
    \/ s = <<>>
    \/ /\ Len(s) >= 2 /\ s[1] = "-"
       /\ \A i \in 2..Len(s) : s[i] \in NameChars

\* name matches
\* ^sos-collector(-[A-Za-z0-9_-]+)?(-[A-Za-z0-9_-]+)?-\d{4}-\d{2}-\d{2}-[a-z]{5}$
MatchesArchivePattern(name) ==
    /\ Len(name) >= Len(ArchivePrefix) + 17
    /\ SubSeq(name, 1, Len(ArchivePrefix)) = ArchivePrefix
    /\ IsLabelAndCase(SubSeq(name, Len(ArchivePrefix) + 1, Len(name) - 17))
    /\ IsDateAndLetters(SubSeq(name, Len(name) - 16, Len(name)))

\* C22: whatever --label and --case-id were given, the name that
\* _get_archive_name builds matches the pattern of the archive's root
\* directory
C22_ArchiveNameMatches ==
    pc = "archive_named" => MatchesArchivePattern(arc_name)

----------------------------------------------------------------------------
(* Claims about _parse_option_string (SpecJuju) *)

\* Python: ch.join(list)
RECURSIVE Join(_, _)
Join(list, ch) ==
    IF list = <<>> THEN <<>>
    ELSE IF Len(list) = 1 THEN list[1]
    ELSE list[1] \o << ch >> \o Join(Tail(list), ch)

ABC == << << "a" >>, << "b" >>, << "c" >> >>

\* C23: _parse_option_string gives the empty list for no argument and for
\* the empty string; for any other string it gives pieces that hold no comma
\* and that, joined by commas, are the string without the blanks in front;
\* '   a,b,c' and the test's '    a,b,c' give ['a', 'b', 'c']
C23_ParseOptionString ==
    pc = "option_parsed" =>
        /\ option_string \in { PyNone, <<>> } => option_list = <<>>
        /\ option_string \notin { PyNone, <<>> } =>
              /\ Join(option_list, ",") = lstrip(option_string, " ")
              /\ \A i \in 1..Len(option_list) : ~Contains(option_list[i], ",")
        /\ option_string \in { TestString, ThreeBlanks } => option_list = ABC

\* C23's case: the string of the test was parsed
C23_Witness ==
    pc = "option_parsed" /\ option_string = TestString /\ option_list = ABC

----------------------------------------------------------------------------
(* Claims about parse_node_strings (SpecParse) *)

\* the depth of bracket classes after each character of s, -1 once a ']' closes
\* nothing or a '[' opens inside a class
RECURSIVE ClassDepth(_, _, _)
ClassDepth(s, k, depth) ==
    IF depth < 0 \/ k > Len(s) THEN depth
    ELSE IF s[k] = "[" THEN ClassDepth(s, k + 1, IF depth = 0 THEN 1 ELSE -1)
    ELSE IF s[k] = "]" THEN ClassDepth(s, k + 1, IF depth = 1 THEN 0 ELSE -1)
    ELSE ClassDepth(s, k + 1, depth)

\* every '[' of s has its ']' and the reverse
BalancedClasses(s) == ClassDepth(s, 1, 0) = 0

\* C10: parse_node_strings splits at a comma only outside a bracket class, so
\* every token of a string whose classes are balanced has balanced classes, and
\* 'web-[0-3],db-[0-1]' gives ['web-[0-3]', 'db-[0-1]']
C10_SplitsOutsideClasses ==
    pc = "parsed" =>
        /\ (\A i \in 1..Len(raw_nodes) : BalancedClasses(raw_nodes[i]))
              => \A k \in 1..Len(opts_nodes) : BalancedClasses(opts_nodes[k])
        /\ raw_nodes = << ExampleNodes >> => opts_nodes = ExampleTokens

====
